---- MODULE Spec2Model ----
(***************************************************************************)
(* Tree Style History Viewer: the rebuild pipeline of fetchAndBuildTree    *)
(* (tree builder, consecutive-duplicate collapser, store) and the search   *)
(* projector filterAndCloneTree, as a state machine.                       *)
(*                                                                         *)
(* Strings (titles, URLs, the search box) are sequences of one-character   *)
(* strings.  Node objects live in a heap `nodes` keyed by visitId; arrays  *)
(* of node objects (children, rootNodes, currentFullTree) are sequences of *)
(* visitIds.  visitIds are opaque: the code only compares them for         *)
(* equality, so the k-th entry inserted into allVisitsMap is given the id  *)
(* VisitIdName[k].                                                         *)
(*                                                                         *)
(* The tail of fetchAndBuildTree after the awaited fetches runs in one     *)
(* turn of the event loop; pc names the position in it (fetched, built,    *)
(* collapsed, stored) and in renderFilteredTree (projected).               *)
(*   Spec        mappings with every kind of referrer, cycles included     *)
(*   SpecDeep    forests of up to DeepVisits nodes over the history items  *)
(*   SpecTimes   forests whose visits differ in URL and in visitTime       *)
(*   SpecSearch  forests projected under a changing search box             *)
(*   SpecRender  the same, each projection rendered by renderTree          *)
(*   SpecCycles  Spec with the render: cyclic referrers through every pass *)
(*   SpecFetch   the per-URL fetches settling in any order, then the same  *)
(*   SpecDebounce  calls of one debounced function and its timer           *)
(*   SpecExits   every exit of fetchAndBuildTree, two rebuilds in flight   *)
(*   SpecExitsFair  the same, every awaited request settles eventually     *)
(*   SpecRerender   clicks on the checkboxes between renders               *)
(*                                                                         *)
(* The page itself (rebuilds in flight, the debounced search render, the   *)
(* checkbox clicks and the bulk deletion) runs one event handler or one    *)
(* continuation after an await per step, with pc = "idle" in between.      *)
(*   SpecSelect    one rebuild or deletion at a time, clicks on checkboxes *)
(*   SpecDelete    the bulk deletion, its requests settling either way     *)
(*   SpecRebuilds  up to MaxPending overlapping rebuilds                   *)
(***************************************************************************)
(* History items carry a non-empty url (chrome.history.search); a title    *)
(* may be empty.                                                           *)
(***************************************************************************)
EXTENDS Integers, Sequences, FiniteSets, TLC

\* ---- bounds of the model ----
MaxVisits == 3      \* entries of allVisitsMap under Spec, SpecTimes and SpecSearch
DeepVisits == 4     \* entries of allVisitsMap under SpecDeep
MaxTime == 2        \* visitTime ranges over 1..MaxTime
NumItems == 2       \* history items (distinct URLs) returned by the page query
PageVisits == 3     \* entries of allVisitsMap under SpecSelect and SpecRebuilds
MaxPending == 2     \* invocations of fetchAndBuildTree in flight at once (SpecRebuilds)
MaxFetched == 2     \* visits chrome.history.getVisits returns for one URL (SpecFetch)
Wait == 2           \* the wait of the debounced function, in ticks of the clock (SpecDebounce)
MaxClock == 6       \* the clock stops here (SpecDebounce)
MaxCalls == 3       \* calls of the debounced function in one burst (SpecDebounce)

VARIABLES
  pc,                     \* position inside fetchAndBuildTree / renderFilteredTree
  allVisitsMap,           \* Map visitId -> {visitData, historyItem}, in insertion order
  shouldFilterDuplicates, \* the filter-duplicates checkbox as read by the rebuild
  nodes,                  \* heap of node objects: visitId -> [id, data, children]
  rootNodes,              \* tentative roots collected by the link pass
  finalRootNodes,         \* roots after the post-pass (and after collapsing)
  currentFullTree,        \* the stored canonical forest (array of root nodes)
  searchInput,            \* raw value of the search box
  nodesToRender,          \* result of filterAndCloneTree handed to renderTree
  aliased,                \* nodesToRender is the very array object currentFullTree
  historyTreeDiv,         \* the rendered output: [children: the <li> trees, textContent]
  checkboxes,             \* heap of the checkbox elements still referenced
  visibleCheckboxes,      \* array of checkbox elements (indices into checkboxes)
  lastCheckedIndex,       \* the range anchor (0-based index into visibleCheckboxes)
  implicitGlobals,        \* names of the undeclared variables assigned so far
  loadingDiv,             \* loadingDiv.style.display
  pending,                \* invocations suspended at an await, oldest first
  timers,                 \* the debounce timers that are running
  event,                  \* the event whose handler ran in the last turn (history)
  responses,              \* what chrome.history answers per history item of the page query
  unsettled,              \* the history items whose getVisits request has not settled
  now,                    \* the clock
  timeout,                \* debounce's closure variable: the timer that is set, if any
  burst                   \* the calls of the debounced function since func last ran (history)

\* the page: what renderTree, the click handlers and the awaits work on
pageVars == <<historyTreeDiv, checkboxes, visibleCheckboxes, lastCheckedIndex,
              implicitGlobals, loadingDiv, pending, timers, event>>

\* the per-URL fetches of one rebuild
fetchVars == <<responses, unsettled>>

\* one debounced function and the clock
debounceVars == <<now, timeout, burst>>

vars == <<fetchVars, debounceVars, pc, allVisitsMap, shouldFilterDuplicates, nodes, rootNodes,
          finalRootNodes, currentFullTree, searchInput, nodesToRender, aliased,
          pageVars>>

\* ---- values ----
Undefined == "undefined"           \* a missing referringVisitId
NoReferrer == "0"                  \* the "no referrer" sentinel
VisitIdName == <<"1", "2", "3", "4", "5", "6">>

ItemTable ==
  << [url |-> <<"x">>,      title |-> <<"A">>],
     [url |-> <<"y">>,      title |-> <<>>],
     [url |-> <<"a", "y">>, title |-> <<"X", "b">>],
     [url |-> <<"b">>,      title |-> <<"y", " ", "A">>] >>

HistoryItems == { ItemTable[i] : i \in 1..NumItems }

SearchInputs == { <<>>, <<" ">>, <<" ", "A">>, <<"y">>, <<"y", " ">> }

Range(s) == { s[i] : i \in DOMAIN s }

\* ---- JavaScript string helpers ----
LowerChar(c) == IF c = "A" THEN "a" ELSE IF c = "X" THEN "x" ELSE c

ToLowerCase(s) == [i \in 1..Len(s) |-> LowerChar(s[i])]

Includes(s, q) == \E i \in 0..(Len(s) - Len(q)) : SubSeq(s, i + 1, i + Len(q)) = q

RECURSIVE TrimStart(_)
TrimStart(s) == IF s # <<>> /\ Head(s) = " " THEN TrimStart(Tail(s)) ELSE s

RECURSIVE TrimEnd(_)
TrimEnd(s) ==
  IF s # <<>> /\ s[Len(s)] = " " THEN TrimEnd(SubSeq(s, 1, Len(s) - 1)) ELSE s

Trim(s) == TrimEnd(TrimStart(s))

Truthy(s) == s # <<>>      \* a url is truthy when it is a non-empty string

\* ---- inputs: the normalized mapping ----
AllRefs(n) == {Undefined, NoReferrer} \cup { VisitIdName[k] : k \in 1..n }

\* referrers inserted before the visit itself: every ordered forest arises
\* from such a mapping, up to the names of the ids
EarlierRefs(k) == {NoReferrer} \cup { VisitIdName[j] : j \in 1..(k - 1) }

\* the Map entries: the k-th one inserted has the key VisitIdName[k]
Mapping(refs, times, items) ==
  [k \in DOMAIN refs |->
     [visitData |-> [visitId |-> VisitIdName[k],
                     referringVisitId |-> refs[k],
                     visitTime |-> times[k]],
      historyItem |-> items[k]]]

\* ---- Tree Builder ----
Keys(map) == { map[k].visitData.visitId : k \in DOMAIN map }

ValueOf(map, visitId) == map[CHOOSE k \in DOMAIN map : map[k].visitData.visitId = visitId]

CreateNodes(map) ==
  [visitId \in Keys(map) |->
     [id |-> visitId, data |-> ValueOf(map, visitId), children |-> <<>>]]

SomeId(arr, id) == \E i \in DOMAIN arr : arr[i] = id

ReferrerResolves(referringVisitId, ns) ==
  /\ referringVisitId # Undefined
  /\ referringVisitId # NoReferrer
  /\ referringVisitId \in DOMAIN ns

\* LinkNode with the already-a-child test inverted (child.id !== currentNode.id)
LinkNodeInvertedSome(st, value) ==
  LET referringVisitId == value.visitData.referringVisitId
      id == value.visitData.visitId
  IN IF ReferrerResolves(referringVisitId, st.nodes)
       THEN IF \E i \in DOMAIN st.nodes[referringVisitId].children :
                 st.nodes[referringVisitId].children[i] # id
              THEN st
              ELSE [st EXCEPT !.nodes[referringVisitId].children = Append(@, id)]
       ELSE IF SomeId(st.rootNodes, id)
              THEN st
              ELSE [st EXCEPT !.rootNodes = Append(@, id)]

\* LinkNode that makes a root only of a visit without referrer
LinkNodeDropsDangling(st, value) ==
  LET referringVisitId == value.visitData.referringVisitId
      id == value.visitData.visitId
  IN IF referringVisitId = Undefined \/ referringVisitId = NoReferrer
       THEN IF SomeId(st.rootNodes, id)
              THEN st
              ELSE [st EXCEPT !.rootNodes = Append(@, id)]
       ELSE IF referringVisitId \in DOMAIN st.nodes
                 /\ ~SomeId(st.nodes[referringVisitId].children, id)
              THEN [st EXCEPT !.nodes[referringVisitId].children = Append(@, id)]
              ELSE st

\* LinkNode that looks the parent up under the visit's own id
LinkNodeUnderOwnId(st, value) ==
  LET referringVisitId == value.visitData.referringVisitId
      id == value.visitData.visitId
  IN IF ReferrerResolves(referringVisitId, st.nodes)
       THEN IF SomeId(st.nodes[id].children, id)
              THEN st
              ELSE [st EXCEPT !.nodes[id].children = Append(@, id)]
       ELSE IF SomeId(st.rootNodes, id)
              THEN st
              ELSE [st EXCEPT !.rootNodes = Append(@, id)]

\* LinkNode that finds a parent only among the visits linked before
LinkNodeSinglePass(st, value) ==
  LET referringVisitId == value.visitData.referringVisitId
      id == value.visitData.visitId
  IN IF /\ ReferrerResolves(referringVisitId, st.nodes)
        /\ referringVisitId \in Range(st.rootNodes)
                                  \cup UNION { Range(st.nodes[q].children) : q \in DOMAIN st.nodes }
       THEN IF SomeId(st.nodes[referringVisitId].children, id)
              THEN st
              ELSE [st EXCEPT !.nodes[referringVisitId].children = Append(@, id)]
       ELSE IF SomeId(st.rootNodes, id)
              THEN st
              ELSE [st EXCEPT !.rootNodes = Append(@, id)]

LinkNode(st, value) ==
  LET referringVisitId == value.visitData.referringVisitId
      id == value.visitData.visitId
  IN IF ReferrerResolves(referringVisitId, st.nodes)
       THEN IF SomeId(st.nodes[referringVisitId].children, id)
              THEN st
              ELSE [st EXCEPT !.nodes[referringVisitId].children = Append(@, id)]
       ELSE IF SomeId(st.rootNodes, id)
              THEN st
              ELSE [st EXCEPT !.rootNodes = Append(@, id)]

RECURSIVE LinkNodes(_, _, _)
LinkNodes(map, k, st) ==
  IF k > Len(map) THEN st ELSE LinkNodes(map, k + 1, LinkNode(st, map[k]))

NonRootIds(ns) == UNION { Range(ns[p].children) : p \in DOMAIN ns }

\* a filter that falls back on some node when no root is left
RefineRootsNeverEmpty(roots, ns) ==
  LET kept == SelectSeq(roots, LAMBDA id : id \notin NonRootIds(ns))
  IN IF kept = <<>> /\ DOMAIN ns # {}
       THEN <<CHOOSE id \in DOMAIN ns : TRUE>>
       ELSE kept

RefineRoots(roots, ns) == SelectSeq(roots, LAMBDA id : id \notin NonRootIds(ns))

TypeOK ==
  /\ pc \in {"fetching", "fetched", "built", "collapsed", "stored", "projected",
            "rendered", "idle"}
  /\ shouldFilterDuplicates \in BOOLEAN

\* the page while the first rebuild is under way: the output cleared, the
\* loading indicator on, visibleCheckboxes and lastCheckedIndex not yet created
\* (the script declares neither; an assignment creates the global)
EmptyDiv == [children |-> <<>>, textContent |-> ""]

\* an event: its type and, for a click on a checkbox, the document position
\* of the target and event.shiftKey; for the settling of an awaited request
\* the target is the place in pending of the invocation that went on (kept
\* for the requests after which an invocation stores or starts a rebuild)
Event(type, target, shiftKey) == [type |-> type, target |-> target, shiftKey |-> shiftKey]

\* no per-URL fetch under way
NothingFetched == responses = <<>> /\ unsettled = {}

\* no timer set, no call made
NoTimer == [set |-> FALSE, due |-> 0, args |-> <<>>]

\* burst: how many calls the current burst has, when its last call came and
\* with which arguments, the arguments seen in it, how often func has run
\* since its first call and with which arguments
NoCalls == [calls |-> 0, time |-> 0, args |-> <<>>, seen |-> {}, invocations |-> 0,
            invoked |-> <<>>]

NotDebouncing == now = 0 /\ timeout = NoTimer /\ burst = NoCalls

PageCleared ==
  /\ historyTreeDiv = EmptyDiv
  /\ checkboxes = <<>>
  /\ visibleCheckboxes = <<>>
  /\ lastCheckedIndex = 0
  /\ implicitGlobals = {}
  /\ loadingDiv = "block"
  /\ pending = <<>>
  /\ timers = {}
  /\ event = Event("DOMContentLoaded", 0, FALSE)
  /\ NothingFetched
  /\ NotDebouncing

\* the state when the awaited per-URL fetches are done: allVisitsMap holds up
\* to n entries; anyRef: referrers of every kind, else only earlier visits
InitWith(n, anyRef, timeSet, itemSet) ==
  /\ pc = "fetched"
  /\ \E len \in 0..n :
       \E refs \in [1..len -> IF anyRef THEN AllRefs(n + 1) ELSE EarlierRefs(len)] :
         /\ anyRef \/ \A k \in 1..len : refs[k] \in EarlierRefs(k)
         /\ \E times \in [1..len -> timeSet], items \in [1..len -> itemSet] :
              allVisitsMap = Mapping(refs, times, items)
  /\ shouldFilterDuplicates \in BOOLEAN
  /\ nodes = <<>>
  /\ rootNodes = <<>>
  /\ finalRootNodes = <<>>
  /\ currentFullTree = <<>>
  /\ searchInput = <<>>
  /\ nodesToRender = <<>>
  /\ aliased = FALSE
  /\ PageCleared

\* every kind of referrer (absent, sentinel, a key, no key; cycles too);
\* the builder reads neither historyItem nor visitTime
Init == InitWith(MaxVisits, TRUE, {1}, {ItemTable[1]})

\* fetchAndBuildTree, "Build the initial tree structure"
Build ==
  /\ pc = "fetched"
  /\ LET linked == LinkNodes(allVisitsMap, 1,
                             [nodes |-> CreateNodes(allVisitsMap), rootNodes |-> <<>>])
     IN /\ nodes' = linked.nodes
        /\ rootNodes' = linked.rootNodes
        /\ finalRootNodes' = RefineRoots(linked.rootNodes, linked.nodes)
  /\ pc' = "built"
  /\ UNCHANGED <<allVisitsMap, shouldFilterDuplicates, currentFullTree,
                 searchInput, nodesToRender,
                 aliased, pageVars>>
  /\ UNCHANGED <<fetchVars, debounceVars>>

\* ---- Duplicate Collapser ----
UrlOf(ns, id) == ns[id].data.historyItem.url

\* the marking loop marking the later element of an equal pair (keeps the first)
IndicesToRemoveNext(arr, ns) ==
  { i + 1 : i \in { j \in 1..(Len(arr) - 1) :
                      /\ Truthy(UrlOf(ns, arr[j]))
                      /\ Truthy(UrlOf(ns, arr[j + 1]))
                      /\ UrlOf(ns, arr[j]) = UrlOf(ns, arr[j + 1]) } }

\* the marking loop leaving after the first equal pair it finds
IndicesToRemoveFirstOnly(arr, ns) ==
  LET marked == { i \in 1..(Len(arr) - 1) :
                    /\ Truthy(UrlOf(ns, arr[i]))
                    /\ Truthy(UrlOf(ns, arr[i + 1]))
                    /\ UrlOf(ns, arr[i]) = UrlOf(ns, arr[i + 1]) }
  IN { i \in marked : \A k \in marked : i <= k }

\* the marking loop shared by the children pass and the root pass
IndicesToRemove(arr, ns) ==
  { i \in 1..(Len(arr) - 1) :
      /\ Truthy(UrlOf(ns, arr[i]))
      /\ Truthy(UrlOf(ns, arr[i + 1]))
      /\ UrlOf(ns, arr[i]) = UrlOf(ns, arr[i + 1]) }

RECURSIVE KeepFrom(_, _, _)
KeepFrom(arr, i, removed) ==
  IF i > Len(arr) THEN <<>>
  ELSE IF i \in removed THEN KeepFrom(arr, i + 1, removed)
  ELSE <<arr[i]>> \o KeepFrom(arr, i + 1, removed)

\* children.splice(i, 1) for every marked i, from the back
SpliceMarked(arr, removed) == KeepFrom(arr, 1, removed)

RECURSIVE FilterConsecutiveDuplicatesInChildren(_, _)
RECURSIVE FilterEachChild(_, _, _)

FilterConsecutiveDuplicatesInChildren(node, ns) ==
  IF Len(ns[node].children) < 2 THEN ns
  ELSE LET kept == SpliceMarked(ns[node].children,
                                IndicesToRemove(ns[node].children, ns))
       IN FilterEachChild(kept, 1, [ns EXCEPT ![node].children = kept])

\* arr.forEach((child) => filterConsecutiveDuplicatesInChildren(child))
FilterEachChild(arr, i, ns) ==
  IF i > Len(arr) THEN ns
  ELSE FilterEachChild(arr, i + 1, FilterConsecutiveDuplicatesInChildren(arr[i], ns))

\* the root-list pass: build filteredRoots from the unmarked indices
FilterRoots(roots, ns) == KeepFrom(roots, 1, IndicesToRemove(roots, ns))

\* "Apply Consecutive Duplicate Filtering (Optional)": [roots, nodes] afterwards
CollapsePass(enabled, roots, ns) ==
  IF enabled /\ Len(roots) > 0
    THEN LET ns1 == FilterEachChild(roots, 1, ns)
         IN [roots |-> FilterRoots(roots, ns1), nodes |-> ns1]
    ELSE [roots |-> roots, nodes |-> ns]

\* ---- Search Projector ----
RECURSIVE Subtree(_, _)
Subtree(id, ns) ==
  [id |-> id, data |-> ns[id].data,
   children |-> [i \in 1..Len(ns[id].children) |-> Subtree(ns[id].children[i], ns)]]

\* NodeMatches comparing the title without lower-casing it
NodeMatchesCaseSensitive(node, searchTextLower) ==
  \/ Includes(node.data.historyItem.title, searchTextLower)
  \/ Includes(ToLowerCase(node.data.historyItem.url), searchTextLower)

NodeMatches(node, searchTextLower) ==
  \/ Includes(ToLowerCase(node.data.historyItem.title), searchTextLower)
  \/ Includes(ToLowerCase(node.data.historyItem.url), searchTextLower)

RECURSIVE FilterAndCloneNodes(_, _, _)
RECURSIVE FilterAndCloneTree(_, _)

\* nodes is an array of node objects, here given as their (sub)trees
FilterAndCloneTree(treeNodes, searchTextLower) ==
  IF searchTextLower = <<>> THEN treeNodes
  ELSE FilterAndCloneNodes(treeNodes, 1, searchTextLower)

FilterAndCloneNodes(treeNodes, i, searchTextLower) ==
  IF i > Len(treeNodes) THEN <<>>
  ELSE LET node == treeNodes[i]
           filteredChildren == FilterAndCloneTree(node.children, searchTextLower)
           rest == FilterAndCloneNodes(treeNodes, i + 1, searchTextLower)
       IN IF NodeMatches(node, searchTextLower) \/ Len(filteredChildren) > 0
            THEN <<[node EXCEPT !.children = filteredChildren]>> \o rest
            ELSE rest

\* the search text taken without trim()
SearchTextNoTrim(value) == ToLowerCase(value)

\* searchInput.value.trim().toLowerCase()
SearchText(value) == ToLowerCase(Trim(value))

Forest(roots, ns) == [i \in 1..Len(roots) |-> Subtree(roots[i], ns)]

\* filterAndCloneTree hands back its argument for every query shorter than two
\* characters (a minimum query length)
ReturnsArgumentShortQuery(searchTextLower) == Len(searchTextLower) < 2

\* "if (!searchTextLower) return nodes": the result is the argument array itself
ReturnsArgument(searchTextLower) == ~Truthy(searchTextLower)

\* ---- Renderer ----
ArrayIds(arr) == [i \in DOMAIN arr |-> arr[i].id]

\* the root comparator used for the children too (most recent first)
CompareChildrenDescending(a, b) == b.data.visitData.visitTime - a.data.visitData.visitTime

\* (a, b) => b.data.visitData.visitTime - a.data.visitData.visitTime
CompareRoots(a, b) == b.data.visitData.visitTime - a.data.visitData.visitTime

\* (a, b) => a.data.visitData.visitTime - b.data.visitData.visitTime
CompareChildren(a, b) == a.data.visitData.visitTime - b.data.visitData.visitTime

\* the results of the compare function on the elements at every two indices
RootComparisons(arr) == [j, i \in DOMAIN arr |-> CompareRoots(arr[j], arr[i])]

ChildComparisons(arr) == [j, i \in DOMAIN arr |-> CompareChildren(arr[j], arr[i])]

\* Array.prototype.sort(compare): stable, the array itself is reordered;
\* compare[j, i] is the result of the compare function on arr[j] and arr[i]
Sort(arr, compare) ==
  LET Before(j, i) == \/ compare[j, i] < 0
                      \/ compare[j, i] = 0 /\ j < i
      Rank(i) == Cardinality({ j \in DOMAIN arr : Before(j, i) }) + 1
  IN [p \in DOMAIN arr |-> arr[CHOOSE i \in DOMAIN arr : Rank(i) = p]]

\* createNodeElement: the checkbox of the <li>
Checkbox(nodeData) ==
  [dataset |-> [url |-> nodeData.historyItem.url,
                visitId |-> nodeData.visitData.visitId],
   checked |-> FALSE]

\* renderNode: the <li> of node, its children rendered in sorted order
RECURSIVE RenderNode(_)
RenderNode(node) ==
  [data |-> node.data,
   children |->
     IF Len(node.children) > 0
       THEN LET sorted == Sort(node.children, ChildComparisons(node.children))
            IN [i \in DOMAIN sorted |-> RenderNode(sorted[i])]
       ELSE <<>>]

\* renderNode: what it leaves of node, whose children arrays it sorts in place
RECURSIVE SortedNode(_)
SortedNode(node) ==
  IF Len(node.children) > 0
    THEN LET sorted == Sort(node.children, ChildComparisons(node.children))
         IN [node EXCEPT !.children = [i \in DOMAIN sorted |-> SortedNode(sorted[i])]]
    ELSE node

CreateTreeHtml(treeNodes) == [i \in DOMAIN treeNodes |-> RenderNode(treeNodes[i])]

\* the checkboxes under a list of <li>, in document order
RECURSIVE CheckboxesIn(_, _)
CheckboxesIn(list, i) ==
  IF i > Len(list) THEN <<>>
  ELSE <<Checkbox(list[i].data)>> \o CheckboxesIn(list[i].children, 1)
         \o CheckboxesIn(list, i + 1)

\* historyTreeDiv.querySelectorAll(".history-item-checkbox"): the elements of
\* the rendered list are the first entries of the heap, in document order
QuerySelectorAll(div) == [k \in 1..Len(CheckboxesIn(div.children, 1)) |-> k]

RECURSIVE SubtreesOf(_)
SubtreesOf(arr) == UNION { {arr[i]} \cup SubtreesOf(arr[i].children) : i \in DOMAIN arr }

\* the heap once the children arrays of the (sub)trees of arr are in arr's order
ReorderedHeap(arr, ns) ==
  [id \in DOMAIN ns |->
     IF \E t \in SubtreesOf(arr) : t.id = id
       THEN [ns[id] EXCEPT !.children =
               ArrayIds((CHOOSE t \in SubtreesOf(arr) : t.id = id).children)]
       ELSE ns[id]]

\* the text renderTree shows when there is nothing to render
NothingToRenderText(searchValue, fullTree) ==
  IF Truthy(Trim(searchValue)) THEN "No history items found matching"
  ELSE IF Len(fullTree) > 0
    THEN "All history items were filtered out by the selected options."
    ELSE "No history items found for the selected criteria."

\* a renderTree whose new checkboxes take over the checked state of the
\* checkboxes that were at their positions
RenderTreeKeepsChecked(st, searchValue) ==
  LET toRender == st.nodesToRender
      sorted == Sort(toRender, RootComparisons(toRender))
      after == [i \in DOMAIN sorted |-> SortedNode(sorted[i])]
      list == CreateTreeHtml(sorted)
      fresh == CheckboxesIn(list, 1)
  IN IF Len(toRender) > 0
       THEN [st EXCEPT
               !.nodesToRender = after,
               !.currentFullTree = IF st.aliased THEN ArrayIds(after) ELSE @,
               !.finalRootNodes = IF st.aliased THEN ArrayIds(after) ELSE @,
               !.nodes = IF st.aliased THEN ReorderedHeap(after, @) ELSE @,
               !.historyTreeDiv = [children |-> list, textContent |-> ""],
               !.checkboxes =
                  [k \in DOMAIN fresh |->
                     IF k \in DOMAIN st.checkboxes
                       THEN [fresh[k] EXCEPT !.checked = st.checkboxes[k].checked]
                       ELSE fresh[k]],
               !.visibleCheckboxes = [k \in 1..Len(fresh) |-> k],
               !.implicitGlobals = @ \cup {"visibleCheckboxes"},
               !.loadingDiv = "none"]
       ELSE [st EXCEPT
               !.historyTreeDiv =
                  [children |-> <<>>,
                   textContent |-> NothingToRenderText(searchValue, st.currentFullTree)],
               !.loadingDiv = "none"]

\* renderTree(st.nodesToRender) run on the state st; st.aliased says that the
\* argument is the array currentFullTree (= finalRootNodes of its rebuild)
RenderTree(st, searchValue) ==
  LET toRender == st.nodesToRender
      sorted == Sort(toRender, RootComparisons(toRender))
      after == [i \in DOMAIN sorted |-> SortedNode(sorted[i])]
      list == CreateTreeHtml(sorted)
  IN IF Len(toRender) > 0
       THEN [st EXCEPT
               !.nodesToRender = after,
               !.currentFullTree = IF st.aliased THEN ArrayIds(after) ELSE @,
               !.finalRootNodes = IF st.aliased THEN ArrayIds(after) ELSE @,
               !.nodes = IF st.aliased THEN ReorderedHeap(after, @) ELSE @,
               !.historyTreeDiv = [children |-> list, textContent |-> ""],
               !.checkboxes = CheckboxesIn(list, 1),
               !.visibleCheckboxes = [k \in 1..Len(CheckboxesIn(list, 1)) |-> k],
               !.implicitGlobals = @ \cup {"visibleCheckboxes"},
               !.loadingDiv = "none"]
       ELSE [st EXCEPT
               !.historyTreeDiv =
                  [children |-> <<>>,
                   textContent |-> NothingToRenderText(searchValue, st.currentFullTree)],
               !.loadingDiv = "none"]

\* renderFilteredTree run on the state st
RenderFilteredTree(st, searchValue) ==
  LET searchText == SearchText(searchValue)
  IN RenderTree([st EXCEPT
                   !.nodesToRender =
                      FilterAndCloneTree(Forest(st.currentFullTree, st.nodes), searchText),
                   !.aliased = ReturnsArgument(searchText)],
                searchValue)

\* the part of the state renderTree works on
RenderState ==
  [nodesToRender |-> nodesToRender, aliased |-> aliased,
   currentFullTree |-> currentFullTree, finalRootNodes |-> finalRootNodes,
   nodes |-> nodes, historyTreeDiv |-> historyTreeDiv, checkboxes |-> checkboxes,
   visibleCheckboxes |-> visibleCheckboxes, implicitGlobals |-> implicitGlobals,
   loadingDiv |-> loadingDiv]

SetRenderState(st) ==
  /\ nodesToRender' = st.nodesToRender
  /\ aliased' = st.aliased
  /\ currentFullTree' = st.currentFullTree
  /\ finalRootNodes' = st.finalRootNodes
  /\ nodes' = st.nodes
  /\ historyTreeDiv' = st.historyTreeDiv
  /\ checkboxes' = st.checkboxes
  /\ visibleCheckboxes' = st.visibleCheckboxes
  /\ implicitGlobals' = st.implicitGlobals
  /\ loadingDiv' = st.loadingDiv


\* ---- actions ----
\* fetchAndBuildTree, "Apply Consecutive Duplicate Filtering (Optional)"
Collapse ==
  /\ pc = "built"
  /\ LET r == CollapsePass(shouldFilterDuplicates, finalRootNodes, nodes)
     IN /\ finalRootNodes' = r.roots
        /\ nodes' = r.nodes
  /\ pc' = "collapsed"
  /\ UNCHANGED <<allVisitsMap, shouldFilterDuplicates, rootNodes, currentFullTree,
                 searchInput, nodesToRender,
                 aliased, pageVars>>
  /\ UNCHANGED <<fetchVars, debounceVars>>

\* fetchAndBuildTree, "Store the fully processed tree"
Store ==
  /\ pc = "collapsed"
  /\ currentFullTree' = finalRootNodes
  /\ pc' = "stored"
  /\ UNCHANGED <<allVisitsMap, shouldFilterDuplicates, nodes, rootNodes,
                 finalRootNodes, searchInput, nodesToRender,
                 aliased, pageVars>>
  /\ UNCHANGED <<fetchVars, debounceVars>>

\* renderFilteredTree up to the call of renderTree
Project ==
  /\ pc = "stored"
  /\ nodesToRender' =
       FilterAndCloneTree(Forest(currentFullTree, nodes), SearchText(searchInput))
  /\ pc' = "projected"
  /\ aliased' = ReturnsArgument(SearchText(searchInput))
  /\ UNCHANGED <<allVisitsMap, shouldFilterDuplicates, nodes, rootNodes,
                 finalRootNodes, currentFullTree, searchInput, pageVars>>
  /\ UNCHANGED <<fetchVars, debounceVars>>

\* renderFilteredTree: the call of renderTree
Render ==
  /\ pc = "projected"
  /\ SetRenderState(RenderTree(RenderState, searchInput))
  /\ pc' = "rendered"
  /\ UNCHANGED <<allVisitsMap, shouldFilterDuplicates, rootNodes, searchInput,
                 lastCheckedIndex, pending, timers, event>>
  /\ UNCHANGED <<fetchVars, debounceVars>>

\* the user edits the search box; the debounced listener runs renderFilteredTree
SearchInputEvent(value) ==
  /\ pc \in {"projected", "rendered"}
  /\ value # searchInput
  /\ searchInput' = value
  /\ pc' = "stored"
  /\ UNCHANGED <<allVisitsMap, shouldFilterDuplicates, nodes, rootNodes,
                 finalRootNodes, currentFullTree, nodesToRender,
                 aliased, pageVars>>
  /\ UNCHANGED <<fetchVars, debounceVars>>

Next == Build \/ Collapse \/ Store \/ Project

Spec == Init /\ [][Next]_vars

\* forests of up to DeepVisits nodes over the history items
InitDeep == InitWith(DeepVisits, FALSE, {1}, HistoryItems)

SpecDeep == InitDeep /\ [][Next]_vars

\* forests whose visits differ in URL and in visitTime
InitTimes == InitWith(MaxVisits, FALSE, 1..MaxTime, HistoryItems)

SpecTimes == InitTimes /\ [][Next]_vars

\* the search box changes between projections of one stored forest
InitSearch == InitWith(MaxVisits, FALSE, {1}, HistoryItems)

NextSearch == Next \/ \E value \in SearchInputs : SearchInputEvent(value)

SpecSearch == InitSearch /\ [][NextSearch]_vars

\* forests with URLs and visit times, rendered under a changing search box
RenderQueries == { <<>>, <<"y">>, <<"b">> }

InitRender == InitWith(MaxVisits, FALSE, {1, 2}, {ItemTable[1], ItemTable[2]})

NextRender == Next \/ Render \/ \E value \in RenderQueries : SearchInputEvent(value)

SpecRender == InitRender /\ [][NextRender]_vars

\* mappings with referrers of every kind, cycles and self-references too,
\* taken through the collapse, the projection and the render
NextCycles == Next \/ Render

SpecCycles == Init /\ [][NextCycles]_vars

\* ======================================================================
\* The page: rebuilds in flight, search renders, checkbox clicks, deletion.
\* Every action is one turn of the event loop (pc = "idle" between turns);
\* the locals of a call are gone when it returns, and the node objects of a
\* forest that currentFullTree no longer holds are unreachable.
\* ======================================================================
Returned(st) == [st EXCEPT !.nodesToRender = <<>>, !.aliased = FALSE]

Suspended(await, filterChecked, urls) ==
  [await |-> await, shouldFilterDuplicates |-> filterChecked, urls |-> urls]

Without(arr, k) == [i \in 1..(Len(arr) - 1) |-> IF i < k THEN arr[i] ELSE arr[i + 1]]

ShowText(st, text) ==
  [st EXCEPT !.historyTreeDiv = [children |-> <<>>, textContent |-> text]]

\* fetchAndBuildTree's first statements that leave currentFullTree as it is
StartRebuildKeepsTree(st) ==
  [st EXCEPT !.loadingDiv = "block", !.historyTreeDiv = EmptyDiv]

\* fetchAndBuildTree: loading on, output cleared, stored tree reset
StartRebuild(st) ==
  [st EXCEPT !.loadingDiv = "block", !.historyTreeDiv = EmptyDiv,
             !.currentFullTree = <<>>, !.finalRootNodes = <<>>, !.nodes = <<>>]

\* the return on an unparsable date that leaves the loading indicator on
InvalidDateRangeKeepsLoading(st) == ShowText(st, "Invalid date range.")

\* fetchAndBuildTree: the return on an unparsable date
InvalidDateRange(st) == [ShowText(st, "Invalid date range.") EXCEPT !.loadingDiv = "none"]

\* a catch block that shows the message and leaves currentFullTree as it is
CatchErrorKeepsTree(st) ==
  [ShowText(st, "An error occurred") EXCEPT !.loadingDiv = "none"]

\* fetchAndBuildTree: the catch block
CatchError(st) ==
  [ShowText(st, "An error occurred") EXCEPT
     !.currentFullTree = <<>>, !.finalRootNodes = <<>>, !.nodes = <<>>,
     !.loadingDiv = "none"]

\* the return on no history items without the call of renderFilteredTree
NoHistoryItemsUnrendered(st, searchValue) ==
  [st EXCEPT !.currentFullTree = <<>>, !.finalRootNodes = <<>>, !.nodes = <<>>]

\* fetchAndBuildTree: no history items after the self filter
NoHistoryItems(st, searchValue) ==
  RenderFilteredTree([st EXCEPT !.currentFullTree = <<>>, !.finalRootNodes = <<>>,
                                !.nodes = <<>>],
                     searchValue)

\* the same storing its forest only while currentFullTree is still empty
BuildStoreRenderKeepsStored(st, map, enabled, searchValue) ==
  LET linked == LinkNodes(map, 1, [nodes |-> CreateNodes(map), rootNodes |-> <<>>])
      r == CollapsePass(enabled, RefineRoots(linked.rootNodes, linked.nodes),
                        linked.nodes)
  IN IF st.currentFullTree # <<>>
       THEN RenderFilteredTree(st, searchValue)
       ELSE RenderFilteredTree([st EXCEPT !.nodes = r.nodes, !.finalRootNodes = r.roots,
                                          !.currentFullTree = r.roots],
                               searchValue)

\* the same rendering the whole stored forest, whatever the search box holds
BuildStoreRenderUnfiltered(st, map, enabled, searchValue) ==
  LET linked == LinkNodes(map, 1, [nodes |-> CreateNodes(map), rootNodes |-> <<>>])
      r == CollapsePass(enabled, RefineRoots(linked.rootNodes, linked.nodes),
                        linked.nodes)
  IN RenderFilteredTree([st EXCEPT !.nodes = r.nodes, !.finalRootNodes = r.roots,
                                   !.currentFullTree = r.roots],
                        <<>>)

\* fetchAndBuildTree from "Build the initial tree structure" to its end
BuildStoreRender(st, map, enabled, searchValue) ==
  LET linked == LinkNodes(map, 1, [nodes |-> CreateNodes(map), rootNodes |-> <<>>])
      r == CollapsePass(enabled, RefineRoots(linked.rootNodes, linked.nodes),
                        linked.nodes)
  IN RenderFilteredTree([st EXCEPT !.nodes = r.nodes, !.finalRootNodes = r.roots,
                                   !.currentFullTree = r.roots],
                        searchValue)

\* the mappings a rebuild of the page collects: up to PageVisits visits, each
\* referred by none or by an earlier one, of the URLs x, y, x, ... at one time
PageItem(k) == ItemTable[2 - (k % 2)]

PageMapping(refs) ==
  Mapping(refs, [k \in DOMAIN refs |-> 1], [k \in DOMAIN refs |-> PageItem(k)])

PageRefs ==
  UNION { { refs \in [1..len -> EarlierRefs(len)] :
              \A k \in 1..len : refs[k] \in EarlierRefs(k) } : len \in 0..PageVisits }

\* the same with every visit referred by none or by the visit before it
ChainRefs ==
  { refs \in PageRefs :
      \A k \in DOMAIN refs : refs[k] = NoReferrer \/ refs[k] = VisitIdName[k - 1] }

\* a rebuild is triggered (refresh, filter-duplicates change, date range
\* selected, debounced max-results input): fetchAndBuildTree up to the await
\* of chrome.history.search, or to the return on an invalid date
FetchAndBuildTree(limit, datesValid, filterChecked) ==
  /\ pc = "idle"
  /\ Len(pending) < limit
  /\ SetRenderState(Returned(IF datesValid THEN StartRebuild(RenderState)
                                           ELSE InvalidDateRange(StartRebuild(RenderState))))
  /\ pending' = IF datesValid
                  THEN Append(pending, Suspended("search", filterChecked, <<>>))
                  ELSE pending
  /\ allVisitsMap' = <<>>
  /\ rootNodes' = <<>>
  /\ event' = Event("rebuild", 0, FALSE)
  /\ UNCHANGED <<pc, shouldFilterDuplicates, searchInput, lastCheckedIndex, timers>>
  /\ UNCHANGED <<fetchVars, debounceVars>>

\* chrome.history.search settles for the k-th suspended invocation
SearchSettles(k, outcome) ==
  /\ pc = "idle"
  /\ k \in DOMAIN pending
  /\ pending[k].await = "search"
  /\ \/ /\ outcome = "rejected"
        /\ SetRenderState(Returned(CatchError(RenderState)))
        /\ pending' = Without(pending, k)
        /\ allVisitsMap' = <<>>
        /\ rootNodes' = <<>>
     \/ /\ outcome = "no items"
        /\ SetRenderState(Returned(NoHistoryItems(RenderState, searchInput)))
        /\ pending' = Without(pending, k)
        /\ allVisitsMap' = <<>>
        /\ rootNodes' = <<>>
     \/ /\ outcome = "items"
        /\ pending' = [pending EXCEPT ![k].await = "getVisits"]
        /\ UNCHANGED <<allVisitsMap, rootNodes, nodes, finalRootNodes, currentFullTree,
                       nodesToRender, aliased, historyTreeDiv, checkboxes,
                       visibleCheckboxes, implicitGlobals, loadingDiv>>
  /\ event' = Event(outcome, 0, FALSE)
  /\ UNCHANGED <<pc, shouldFilterDuplicates, searchInput, lastCheckedIndex, timers>>
  /\ UNCHANGED <<fetchVars, debounceVars>>

\* the last per-URL getVisits settles for the k-th suspended invocation (a
\* failed one is caught and adds nothing): the rest of fetchAndBuildTree runs
VisitsSettle(k, refs) ==
  /\ pc = "idle"
  /\ k \in DOMAIN pending
  /\ pending[k].await = "getVisits"
  /\ LET linked == LinkNodes(PageMapping(refs), 1,
                             [nodes |-> CreateNodes(PageMapping(refs)), rootNodes |-> <<>>])
     IN /\ allVisitsMap' = PageMapping(refs)
        /\ rootNodes' = linked.rootNodes
  /\ shouldFilterDuplicates' = pending[k].shouldFilterDuplicates
  /\ SetRenderState(Returned(BuildStoreRender(RenderState, PageMapping(refs),
                                              pending[k].shouldFilterDuplicates,
                                              searchInput)))
  /\ pending' = Without(pending, k)
  /\ event' = Event("getVisits settled", k, FALSE)
  /\ UNCHANGED <<pc, searchInput, lastCheckedIndex, timers>>
  /\ UNCHANGED <<fetchVars, debounceVars>>

\* the search box changes: the debounced listener (re)starts its timer
SearchInputChanges(value) ==
  /\ pc = "idle"
  /\ value # searchInput
  /\ searchInput' = value
  /\ timers' = timers \cup {"debouncedRender"}
  /\ event' = Event("input", 0, FALSE)
  /\ UNCHANGED <<pc, allVisitsMap, shouldFilterDuplicates, nodes, rootNodes,
                 finalRootNodes, currentFullTree, nodesToRender, aliased,
                 historyTreeDiv, checkboxes, visibleCheckboxes, lastCheckedIndex,
                 implicitGlobals, loadingDiv, pending>>
  /\ UNCHANGED <<fetchVars, debounceVars>>

\* the timer of the search box fires: renderFilteredTree
DebouncedRender ==
  /\ pc = "idle"
  /\ "debouncedRender" \in timers
  /\ timers' = timers \ {"debouncedRender"}
  /\ SetRenderState(Returned(RenderFilteredTree(RenderState, searchInput)))
  /\ event' = Event("timeout", 0, FALSE)
  /\ UNCHANGED <<pc, allVisitsMap, shouldFilterDuplicates, rootNodes, searchInput,
                 lastCheckedIndex, pending>>
  /\ UNCHANGED <<fetchVars, debounceVars>>

\* ---- Selection Range Tracker ----
\* Array.prototype.indexOf, with the 1-based position of the model's sequences
IndexOfOneBased(arr, x) ==
  IF \E i \in DOMAIN arr : arr[i] = x
    THEN CHOOSE i \in DOMAIN arr : arr[i] = x /\ \A j \in 1..(i - 1) : arr[j] # x
    ELSE -1

\* Array.prototype.indexOf: the 0-based index of the first occurrence, or -1
IndexOf(arr, x) ==
  IF \E i \in DOMAIN arr : arr[i] = x
    THEN (CHOOSE i \in DOMAIN arr : arr[i] = x /\ \A j \in 1..(i - 1) : arr[j] # x) - 1
    ELSE -1

Min(a, b) == IF a < b THEN a ELSE b

Max(a, b) == IF a < b THEN b ELSE a

\* the range loop stopping before end (i < end)
RangeLoopExclusive(start, end) == start..(end - 1)

\* for (let i = start; i <= end; i++)
RangeLoop(start, end) == start..end

\* the state the click handlers work on
SelectionState ==
  [checkboxes |-> checkboxes, visibleCheckboxes |-> visibleCheckboxes,
   lastCheckedIndex |-> lastCheckedIndex, implicitGlobals |-> implicitGlobals,
   historyTreeDiv |-> historyTreeDiv]

\* visibleCheckboxes[i].checked = targetState for the i of the range loop
SetRange(st, start, end, targetState) ==
  LET inRange == { st.visibleCheckboxes[i + 1] :
                     i \in { j \in RangeLoop(start, end) :
                               j + 1 \in DOMAIN st.visibleCheckboxes } }
  IN [st EXCEPT !.checkboxes =
        [e \in DOMAIN @ |-> IF e \in inRange
                              THEN [@[e] EXCEPT !.checked = targetState]
                              ELSE @[e]]]

\* handleShiftClickLogic whose range branch moves the anchor to the clicked index
HandleShiftClickLogicMovesAnchor(st, shiftKey, clickedCheckbox, currentIndex) ==
  IF shiftKey /\ "lastCheckedIndex" \notin st.implicitGlobals THEN st
  ELSE IF /\ shiftKey
          /\ st.lastCheckedIndex # -1
          /\ st.lastCheckedIndex < Len(st.visibleCheckboxes)
    THEN [SetRange(st, Min(st.lastCheckedIndex, currentIndex),
                   Max(st.lastCheckedIndex, currentIndex),
                   st.checkboxes[clickedCheckbox].checked)
            EXCEPT !.lastCheckedIndex = currentIndex]
    ELSE [st EXCEPT !.lastCheckedIndex = currentIndex,
                    !.implicitGlobals = @ \cup {"lastCheckedIndex"}]

\* handleShiftClickLogic; reading lastCheckedIndex before any assignment has
\* created it throws a ReferenceError that ends the handler
HandleShiftClickLogic(st, shiftKey, clickedCheckbox, currentIndex) ==
  IF shiftKey /\ "lastCheckedIndex" \notin st.implicitGlobals THEN st
  ELSE IF /\ shiftKey
          /\ st.lastCheckedIndex # -1
          /\ st.lastCheckedIndex < Len(st.visibleCheckboxes)
    THEN SetRange(st, Min(st.lastCheckedIndex, currentIndex),
                  Max(st.lastCheckedIndex, currentIndex),
                  st.checkboxes[clickedCheckbox].checked)
    ELSE [st EXCEPT !.lastCheckedIndex = currentIndex,
                    !.implicitGlobals = @ \cup {"lastCheckedIndex"}]

\* handleCheckboxClick; reading visibleCheckboxes before renderTree has created
\* it throws a ReferenceError that ends the handler
HandleCheckboxClick(st, shiftKey, clickedCheckbox) ==
  IF "visibleCheckboxes" \notin st.implicitGlobals THEN st
  ELSE LET currentIndex == IndexOf(st.visibleCheckboxes, clickedCheckbox)
           requeried == [st EXCEPT !.visibleCheckboxes = QuerySelectorAll(st.historyTreeDiv)]
           newIndex == IndexOf(requeried.visibleCheckboxes, clickedCheckbox)
       IN IF currentIndex = -1
            THEN IF newIndex = -1
                   THEN requeried
                   ELSE HandleShiftClickLogic(requeried, shiftKey, clickedCheckbox, newIndex)
            ELSE HandleShiftClickLogic(st, shiftKey, clickedCheckbox, currentIndex)

\* the user clicks the checkbox at document position i of the rendered tree:
\* the browser toggles it, then the click listener of historyTreeDiv runs
CheckboxClick(i, shiftKey) ==
  /\ pc = "idle"
  /\ i \in Range(QuerySelectorAll(historyTreeDiv))
  /\ LET toggled == [SelectionState EXCEPT !.checkboxes[i].checked = ~@]
         st == HandleCheckboxClick(toggled, shiftKey, i)
     IN /\ checkboxes' = st.checkboxes
        /\ visibleCheckboxes' = st.visibleCheckboxes
        /\ lastCheckedIndex' = st.lastCheckedIndex
        /\ implicitGlobals' = st.implicitGlobals
  /\ event' = Event("click", i, shiftKey)
  /\ UNCHANGED <<pc, allVisitsMap, shouldFilterDuplicates, nodes, rootNodes,
                 finalRootNodes, currentFullTree, searchInput, nodesToRender, aliased,
                 historyTreeDiv, loadingDiv, pending, timers>>
  /\ UNCHANGED <<fetchVars, debounceVars>>

\* ---- Bulk deletion ----
\* querySelectorAll(".history-item-checkbox:checked"), in document order
SelectedCheckboxes ==
  SelectSeq(QuerySelectorAll(historyTreeDiv), LAMBDA e : checkboxes[e].checked)

\* an add that appends whether or not the value is already there
SetAddAgain(set, x) == Append(set, x)

\* Set.prototype.add on a Set held as the sequence of its values in insertion order
SetAdd(set, x) == IF x \in Range(set) THEN set ELSE Append(set, x)

\* selectedCheckboxes.forEach: the checkboxes from the i-th on added to urlsToDelete
RECURSIVE CollectUrls(_, _, _)
CollectUrls(selected, i, urlsToDelete) ==
  IF i > Len(selected) THEN urlsToDelete
  ELSE CollectUrls(selected, i + 1,
                   IF Truthy(checkboxes[selected[i]].dataset.url)
                     THEN SetAdd(urlsToDelete, checkboxes[selected[i]].dataset.url)
                     ELSE urlsToDelete)

UrlsToDelete == CollectUrls(SelectedCheckboxes, 1, <<>>)

\* the handler going on whatever confirm() returned
ProceedsUnasked(selected, urlsToDelete, confirmed) ==
  Len(selected) # 0 /\ Len(urlsToDelete) # 0

\* the handler gets past its three early returns
Proceeds(selected, urlsToDelete, confirmed) ==
  Len(selected) # 0 /\ Len(urlsToDelete) # 0 /\ confirmed

\* the delete-selected button is clicked: nothing selected, or the user
\* declines, or one deleteUrl request per element of urlsToDelete is issued
\* (deletionPromises, kept in the urls field) and all of them are awaited
DeleteSelected(limit, confirmed) ==
  /\ pc = "idle"
  /\ Len(pending) < limit
  /\ IF Proceeds(SelectedCheckboxes, UrlsToDelete, confirmed)
       THEN /\ loadingDiv' = "block"
            /\ pending' = Append(pending, Suspended("deleteUrl", FALSE, UrlsToDelete))
       ELSE UNCHANGED <<loadingDiv, pending>>
  /\ event' = Event("delete", 0, FALSE)
  /\ UNCHANGED <<pc, allVisitsMap, shouldFilterDuplicates, nodes, rootNodes,
                 finalRootNodes, currentFullTree, searchInput, nodesToRender, aliased,
                 historyTreeDiv, checkboxes, visibleCheckboxes, lastCheckedIndex,
                 implicitGlobals, timers>>
  /\ UNCHANGED <<fetchVars, debounceVars>>

\* a wait that is over as soon as one promise has settled
AnySettled(promises, j) == TRUE

\* Promise.allSettled(promises) is over when promises[j], the last one
\* outstanding, settles
AllSettled(promises, j) == Len(promises) = 1

\* the j-th outstanding deleteUrl request of the k-th suspended handler settles
\* (fulfilled or rejected); after the last one the handler goes on into
\* fetchAndBuildTree, up to its first await
DeleteUrlSettles(k, j, outcome, datesValid, filterChecked) ==
  /\ pc = "idle"
  /\ k \in DOMAIN pending
  /\ pending[k].await = "deleteUrl"
  /\ j \in DOMAIN pending[k].urls
  /\ outcome \in {"fulfilled", "rejected"}
  /\ IF AllSettled(pending[k].urls, j)
       THEN /\ SetRenderState(Returned(
                 IF datesValid THEN StartRebuild(RenderState)
                               ELSE InvalidDateRange(StartRebuild(RenderState))))
            /\ pending' = IF datesValid
                            THEN [pending EXCEPT ![k] = Suspended("search", filterChecked, <<>>)]
                            ELSE Without(pending, k)
            /\ allVisitsMap' = <<>>
            /\ rootNodes' = <<>>
       ELSE /\ pending' = [pending EXCEPT ![k].urls = Without(@, j)]
            /\ UNCHANGED <<allVisitsMap, rootNodes, nodes, finalRootNodes,
                           currentFullTree, nodesToRender, aliased, historyTreeDiv,
                           checkboxes, visibleCheckboxes, implicitGlobals, loadingDiv>>
  /\ event' = Event(IF outcome = "fulfilled" THEN "deleteUrl fulfilled"
                                             ELSE "deleteUrl rejected", k, FALSE)
  /\ UNCHANGED <<pc, shouldFilterDuplicates, searchInput, lastCheckedIndex, timers>>
  /\ UNCHANGED <<fetchVars, debounceVars>>

\* ---- the page after DOMContentLoaded: the first rebuild awaits the page query
InitPage(filterValues) ==
  /\ pc = "idle"
  /\ allVisitsMap = <<>>
  /\ shouldFilterDuplicates = FALSE
  /\ nodes = <<>>
  /\ rootNodes = <<>>
  /\ finalRootNodes = <<>>
  /\ currentFullTree = <<>>
  /\ searchInput = <<>>
  /\ nodesToRender = <<>>
  /\ aliased = FALSE
  /\ historyTreeDiv = EmptyDiv
  /\ checkboxes = <<>>
  /\ visibleCheckboxes = <<>>
  /\ lastCheckedIndex = 0
  /\ implicitGlobals = {}
  /\ loadingDiv = "block"
  /\ \E filterChecked \in filterValues :
       pending = <<Suspended("search", filterChecked, <<>>)>>
  /\ timers = {}
  /\ event = Event("DOMContentLoaded", 0, FALSE)
  /\ NothingFetched
  /\ NotDebouncing

\* one rebuild or deletion at a time and clicks on the rendered checkboxes; the
\* dates are valid, filter-duplicates is off, the search box is empty or "b",
\* the delete requests are fulfilled (SpecDelete has them fail too)
InitSelect == InitPage({FALSE})

NextSelect ==
  \/ FetchAndBuildTree(1, TRUE, FALSE)
  \/ \E k \in DOMAIN pending, outcome \in {"rejected", "no items", "items"} :
       SearchSettles(k, outcome)
  \/ \E k \in DOMAIN pending, refs \in ChainRefs : VisitsSettle(k, refs)
  \/ \E value \in { <<>>, <<"b">> } : SearchInputChanges(value)
  \/ DebouncedRender
  \/ \E i \in 1..PageVisits, shiftKey \in BOOLEAN : CheckboxClick(i, shiftKey)
  \/ \E confirmed \in BOOLEAN : DeleteSelected(1, confirmed)
  \/ \E k \in DOMAIN pending, j \in 1..PageVisits :
       DeleteUrlSettles(k, j, "fulfilled", TRUE, FALSE)

SpecSelect == InitSelect /\ [][NextSelect]_vars

\* clicks between renders: one rebuild at a time with forests of up to two
\* visits, the search box empty or "y", plain clicks and shift-clicks
InitRerender == InitPage({FALSE})

NextRerender ==
  \/ FetchAndBuildTree(1, TRUE, FALSE)
  \/ \E k \in DOMAIN pending, outcome \in {"rejected", "no items", "items"} :
       SearchSettles(k, outcome)
  \/ \E k \in DOMAIN pending, refs \in { r \in ChainRefs : Len(r) <= 2 } :
       VisitsSettle(k, refs)
  \/ \E value \in { <<>>, <<"y">> } : SearchInputChanges(value)
  \/ DebouncedRender
  \/ \E i \in 1..2, shiftKey \in BOOLEAN : CheckboxClick(i, shiftKey)

SpecRerender == InitRerender /\ [][NextRerender]_vars

\* the bulk deletion on its own: plain clicks check and uncheck items, the
\* delete button is clicked, the requests settle one by one either way
InitDelete == InitPage({FALSE})

NextDelete ==
  \/ FetchAndBuildTree(1, TRUE, FALSE)
  \/ \E k \in DOMAIN pending, outcome \in {"rejected", "no items", "items"} :
       SearchSettles(k, outcome)
  \/ \E k \in DOMAIN pending, refs \in ChainRefs : VisitsSettle(k, refs)
  \/ \E i \in 1..PageVisits : CheckboxClick(i, FALSE)
  \/ \E confirmed \in BOOLEAN : DeleteSelected(1, confirmed)
  \/ \E k \in DOMAIN pending, j \in 1..PageVisits, outcome \in {"fulfilled", "rejected"} :
       DeleteUrlSettles(k, j, outcome, TRUE, FALSE)

SpecDelete == InitDelete /\ [][NextDelete]_vars

\* up to MaxPending rebuilds in flight at once, with either setting of
\* filter-duplicates, valid and invalid dates, and search renders in between
InitRebuilds == InitPage(BOOLEAN)

NextRebuilds ==
  \/ \E datesValid, filterChecked \in BOOLEAN :
       FetchAndBuildTree(MaxPending, datesValid, filterChecked)
  \/ \E k \in DOMAIN pending, outcome \in {"rejected", "no items", "items"} :
       SearchSettles(k, outcome)
  \/ \E k \in DOMAIN pending, refs \in { r \in ChainRefs : Len(r) <= 3 } :
       VisitsSettle(k, refs)
  \/ \E value \in { <<>>, <<"y">> } : SearchInputChanges(value)
  \/ DebouncedRender

SpecRebuilds == InitRebuilds /\ [][NextRebuilds]_vars

\* the exits of fetchAndBuildTree: up to two rebuilds in flight, with valid
\* and with unparsable dates, every answer of the page query, forests of up
\* to two visits, and search renders in between
InitExits == InitPage({FALSE})

NextExits ==
  \/ \E datesValid \in BOOLEAN : FetchAndBuildTree(2, datesValid, FALSE)
  \/ \E k \in DOMAIN pending, outcome \in {"rejected", "no items", "items"} :
       SearchSettles(k, outcome)
  \/ \E k \in DOMAIN pending, refs \in { r \in ChainRefs : Len(r) <= 2 } :
       VisitsSettle(k, refs)
  \/ \E value \in { <<>>, <<"y">> } : SearchInputChanges(value)
  \/ DebouncedRender

SpecExits == InitExits /\ [][NextExits]_vars

\* the same with every awaited request settling in the end: the page query
\* and the getVisits requests of each invocation in flight
SpecExitsFair ==
  /\ SpecExits
  /\ \A k \in 1..2 :
       /\ WF_vars(\E outcome \in {"rejected", "no items", "items"} : SearchSettles(k, outcome))
       /\ WF_vars(\E refs \in { r \in ChainRefs : Len(r) <= 2 } : VisitsSettle(k, refs))

\* ======================================================================
\* VisitRecord Normalizer: fetchAndBuildTree from the answer of the page
\* query to the end of Promise.all(urlVisitPromises)
\* ======================================================================
StartTime == 1      \* startTime: the first instant of the window
EndTime == 2        \* endTime: the last instant of the window

HistoryPageUrl == <<"h">>     \* chrome.runtime.getURL("history.html")

SelfItem == [url |-> HistoryPageUrl, title |-> <<"A">>]

\* a VisitItem as chrome.history.getVisits returns it
Visit(visitId, referringVisitId, visitTime, transition) ==
  [visitId |-> visitId, referringVisitId |-> referringVisitId,
   visitTime |-> visitTime, transition |-> transition]

\* the VisitItems a URL can be answered with: visits on both ends of the
\* window and outside it, a reload, and visitIds delivered twice, with the
\* same and with another record, under one URL and under two
VisitTable(url) ==
  IF url = ItemTable[1].url
    THEN << Visit("1", NoReferrer, StartTime, "link"),
            Visit("2", "1", EndTime, "link"),
            Visit("2", NoReferrer, StartTime, "typed"),
            Visit("3", "1", StartTime, "reload") >>
  ELSE IF url = ItemTable[2].url
    THEN << Visit("2", "1", EndTime, "link"),
            Visit("3", "1", StartTime, "link"),
            Visit("3", NoReferrer, StartTime - 1, "link"),
            Visit("1", NoReferrer, EndTime + 1, "link") >>
  ELSE << Visit("4", NoReferrer, StartTime, "link") >>

\* the answers getVisits can give for a URL: up to MaxFetched VisitItems
Deliveries(url) ==
  UNION { [1..len -> Range(VisitTable(url))] : len \in 0..MaxFetched }

\* one history item of the page query and what getVisits does for its URL:
\* it rejects, or it resolves with visits
Response(item, rejected, visits) ==
  [item |-> item, rejected |-> rejected, visits |-> visits]

\* historyItemsRaw.filter without the test of the url
FilterSelfKeepsAll(historyItemsRaw) == DOMAIN historyItemsRaw

\* historyItemsRaw.filter((item) => item.url !== historyPageUrl), as indices
FilterSelf(historyItemsRaw) ==
  { i \in DOMAIN historyItemsRaw : historyItemsRaw[i].item.url # HistoryPageUrl }

\* a window without its two ends
InWindowExclusive(visit) == visit.visitTime > StartTime /\ visit.visitTime < EndTime

\* visit.visitTime >= startTime && visit.visitTime <= endTime
InWindow(visit) == visit.visitTime >= StartTime /\ visit.visitTime <= EndTime

\* allVisitsMap.set without the has test: the value of an existing key is replaced
MapSetOverwrites(map, visit, item) ==
  IF visit.visitId \in Keys(map)
    THEN [k \in DOMAIN map |->
            IF map[k].visitData.visitId = visit.visitId
              THEN [visitData |-> visit, historyItem |-> item]
              ELSE map[k]]
    ELSE Append(map, [visitData |-> visit, historyItem |-> item])

\* if (!allVisitsMap.has(visit.visitId)) allVisitsMap.set(visit.visitId, ...)
MapSet(map, visit, item) ==
  IF visit.visitId \in Keys(map)
    THEN map
    ELSE Append(map, [visitData |-> visit, historyItem |-> item])

\* visits.forEach from the k-th visit on
RECURSIVE VisitsForEach(_, _, _, _)
VisitsForEach(visits, k, item, map) ==
  IF k > Len(visits) THEN map
  ELSE VisitsForEach(visits, k + 1, item,
                     IF InWindow(visits[k]) /\ visits[k].transition # "reload"
                       THEN MapSet(map, visits[k], item)
                       ELSE map)

\* an await that yields the visits although the request was rejected
VisitsOfIgnoringFailure(response) == response.visits

\* await chrome.history.getVisits inside try: a rejection is caught and
\* logged, and the forEach is not reached
VisitsOf(response) == IF response.rejected THEN <<>> ELSE response.visits

\* the getVisits request for the i-th history item settles: the async
\* callback of historyItems.map runs to its end; after the last one
\* Promise.all resolves and fetchAndBuildTree goes on
GetVisitsSettles(i) ==
  /\ pc = "fetching"
  /\ i \in unsettled
  /\ allVisitsMap' = VisitsForEach(VisitsOf(responses[i]), 1, responses[i].item,
                                   allVisitsMap)
  /\ unsettled' = unsettled \ {i}
  /\ pc' = IF unsettled = {i} THEN "fetched" ELSE "fetching"
  /\ event' = Event(IF responses[i].rejected THEN "getVisits rejected"
                                             ELSE "getVisits fulfilled", i, FALSE)
  /\ UNCHANGED <<shouldFilterDuplicates, nodes, rootNodes, finalRootNodes,
                 currentFullTree, searchInput, nodesToRender, aliased,
                 historyTreeDiv, checkboxes, visibleCheckboxes, lastCheckedIndex,
                 implicitGlobals, loadingDiv, pending, timers>>
  /\ UNCHANGED <<responses, debounceVars>>

\* the page query has answered with the history items of two URLs and
\* perhaps the viewer's own page, and a getVisits request is out for each
\* history item that passed the filter
InitFetch ==
  /\ pc = "fetching"
  /\ \E withSelf, rejected1, rejected2 \in BOOLEAN :
       \E visits1 \in Deliveries(ItemTable[1].url), visits2 \in Deliveries(ItemTable[2].url) :
         /\ rejected1 => visits1 = <<VisitTable(ItemTable[1].url)[1]>>
         /\ rejected2 => visits2 = <<VisitTable(ItemTable[2].url)[1]>>
         /\ responses =
              <<Response(ItemTable[1], rejected1, visits1)>>
                \o (IF withSelf
                      THEN <<Response(SelfItem, FALSE, VisitTable(HistoryPageUrl))>>
                      ELSE <<>>)
                \o <<Response(ItemTable[2], rejected2, visits2)>>
  /\ unsettled = FilterSelf(responses)
  /\ allVisitsMap = <<>>
  /\ shouldFilterDuplicates \in BOOLEAN
  /\ nodes = <<>>
  /\ rootNodes = <<>>
  /\ finalRootNodes = <<>>
  /\ currentFullTree = <<>>
  /\ searchInput = <<>>
  /\ nodesToRender = <<>>
  /\ aliased = FALSE
  /\ historyTreeDiv = EmptyDiv
  /\ checkboxes = <<>>
  /\ visibleCheckboxes = <<>>
  /\ lastCheckedIndex = 0
  /\ implicitGlobals = {}
  /\ loadingDiv = "block"
  /\ pending = <<>>
  /\ timers = {}
  /\ event = Event("items", 0, FALSE)
  /\ NotDebouncing

NextFetch == (\E i \in DOMAIN responses : GetVisitsSettles(i)) \/ Next

SpecFetch == InitFetch /\ [][NextFetch]_vars

\* ======================================================================
\* debounce(func, wait): one debounced function and the clock of the event
\* loop. func is the argument of debounce: its invocations are recorded, what
\* it does is the matter of the other specifications.
\* ======================================================================
\* the argument arrays executedFunction is called with
CallArgs == { <<"a">>, <<"b">> }

\* a call that leaves a timer that is set as it is
ExecutedFunctionKeepsTimer(t, args) ==
  IF t.set THEN t ELSE [set |-> TRUE, due |-> now + Wait, args |-> args]

\* clearTimeout(timeout); timeout = setTimeout(later, wait), later closing
\* over the args of this call
ExecutedFunction(t, args) == [set |-> TRUE, due |-> now + Wait, args |-> args]

\* the call belongs to the burst of the call before it
ContinuesBurst == burst.calls > 0 /\ now - burst.time < Wait

\* the debounced function is called. The tasks of the event loop run in the
\* order in which they became ready: a timer that is due runs before the
\* handler of a later event
Call(args) ==
  /\ pc = "idle"
  /\ ~(timeout.set /\ now >= timeout.due)
  /\ ContinuesBurst => burst.calls < MaxCalls
  /\ timeout' = ExecutedFunction(timeout, args)
  /\ burst' = IF ContinuesBurst
                THEN [burst EXCEPT !.calls = @ + 1, !.time = now, !.args = args,
                                   !.seen = @ \cup {args}]
                ELSE [calls |-> 1, time |-> now, args |-> args, seen |-> {args},
                      invocations |-> 0, invoked |-> <<>>]
  /\ UNCHANGED <<now, fetchVars, pc, allVisitsMap, shouldFilterDuplicates, nodes,
                 rootNodes, finalRootNodes, currentFullTree, searchInput,
                 nodesToRender, aliased, pageVars>>

\* the timer fires, at its time or later: later() clears the timer and
\* calls func with the args of the call that set it
Later ==
  /\ pc = "idle"
  /\ timeout.set
  /\ now >= timeout.due
  /\ timeout' = NoTimer
  /\ burst' = [burst EXCEPT !.invocations = @ + 1, !.invoked = timeout.args]
  /\ UNCHANGED <<now, fetchVars, pc, allVisitsMap, shouldFilterDuplicates, nodes,
                 rootNodes, finalRootNodes, currentFullTree, searchInput,
                 nodesToRender, aliased, pageVars>>

\* time passes
Tick ==
  /\ now < MaxClock
  /\ now' = now + 1
  /\ UNCHANGED <<timeout, burst, fetchVars, pc, allVisitsMap, shouldFilterDuplicates,
                 nodes, rootNodes, finalRootNodes, currentFullTree, searchInput,
                 nodesToRender, aliased, pageVars>>

\* the page after DOMContentLoaded: the listeners hold their debounced functions
InitDebounce == InitPage({FALSE})

NextDebounce ==
  \/ \E args \in CallArgs : Call(args)
  \/ Later
  \/ Tick

SpecDebounce == InitDebounce /\ [][NextDebounce]_vars

\* ======================================================================
\* Vocabulary of the properties
\* ======================================================================
RECURSIVE ReachFrom(_, _, _)
ReachFrom(frontier, seen, ns) ==
  IF frontier \subseteq seen THEN seen
  ELSE ReachFrom(UNION { Range(ns[p].children) : p \in frontier \ seen },
                 seen \cup frontier, ns)

\* ids of the nodes reachable from the array roots via children
Reachable(roots, ns) == ReachFrom(Range(roots), {}, ns)

\* how many times id is met when the forest under arr is walked (fuel bounds the depth)
RECURSIVE Occurrences(_, _, _, _)
RECURSIVE OccurrencesFrom(_, _, _, _, _)
Occurrences(arr, id, ns, fuel) == OccurrencesFrom(arr, 1, id, ns, fuel)
OccurrencesFrom(arr, i, id, ns, fuel) ==
  IF i > Len(arr) \/ fuel = 0 THEN 0
  ELSE (IF arr[i] = id THEN 1 ELSE 0)
       + Occurrences(ns[arr[i]].children, id, ns, fuel - 1)
       + OccurrencesFrom(arr, i + 1, id, ns, fuel)

ReferrerOf(map, id) == ValueOf(map, id).visitData.referringVisitId

RECURSIVE ChainReturns(_, _, _, _)
ChainReturns(map, start, cur, steps) ==
  /\ steps > 0
  /\ ReferrerOf(map, cur) \in Keys(map)
  /\ \/ ReferrerOf(map, cur) = start
     \/ ChainReturns(map, start, ReferrerOf(map, cur), steps - 1)

\* the referrer chain of id, followed inside the mapping, comes back to id
OnReferrerCycle(map, id) == ChainReturns(map, id, id, Len(map))

\* the referrer chain of id, followed inside the mapping, reaches a cycle
RECURSIVE LeadsToCycle(_, _, _)
LeadsToCycle(map, id, steps) ==
  \/ OnReferrerCycle(map, id)
  \/ /\ steps > 0
     /\ ReferrerOf(map, id) \in Keys(map)
     /\ LeadsToCycle(map, ReferrerOf(map, id), steps - 1)

AcyclicReferrers(map) == \A id \in Keys(map) : ~OnReferrerCycle(map, id)

ChildIds(ns) == { c \in DOMAIN ns : \E p \in DOMAIN ns : SomeId(ns[p].children, c) }

ParentSlots(ns, id) ==
  { <<p, i>> \in (DOMAIN ns) \X (1..Cardinality(DOMAIN ns)) :
      i <= Len(ns[p].children) /\ ns[p].children[i] = id }

EveryVisitOnce ==
  /\ Reachable(finalRootNodes, nodes) = Keys(allVisitsMap)
  /\ \A id \in Keys(allVisitsMap) :
       Occurrences(finalRootNodes, id, nodes, Len(allVisitsMap) + 1) = 1

\* ======================================================================
\* C1 (original statement): with duplicate collapsing disabled, for every
\* normalized mapping each visitId is the id of exactly one node reachable
\* from the final roots; none is missing and none appears twice.
\* ======================================================================
C1_EveryMappingOnce ==
  (pc = "built" /\ ~shouldFilterDuplicates) => EveryVisitOnce

\* C1 (amended): the same, for every mapping whose referrer links, followed
\* inside the mapping, contain no cycle (no self-reference either); a visit
\* is missing from the forest exactly when its referrer chain reaches a cycle.
C1_AcyclicMappingOnce ==
  (pc = "built" /\ ~shouldFilterDuplicates) =>
     /\ AcyclicReferrers(allVisitsMap) => EveryVisitOnce
     /\ \A id \in Keys(allVisitsMap) :
          /\ Occurrences(finalRootNodes, id, nodes, Len(allVisitsMap) + 1)
               = (IF LeadsToCycle(allVisitsMap, id, Len(allVisitsMap)) THEN 0 ELSE 1)
     /\ Reachable(finalRootNodes, nodes) \subseteq Keys(allVisitsMap)

C1_Witness ==
  /\ pc = "built" /\ ~shouldFilterDuplicates
  /\ Len(allVisitsMap) = 3
  /\ AcyclicReferrers(allVisitsMap)
  /\ Len(finalRootNodes) = 1
  /\ \E p \in DOMAIN nodes : Len(nodes[p].children) = 2

\* ======================================================================
\* C2: in the forest the Tree Builder produces, a node is a final root iff
\* no node lists it in children: roots and children are disjoint and
\* together are all visitIds of the mapping.
\* ======================================================================
C2_RootsComplementChildren ==
  pc = "built" =>
     /\ Range(finalRootNodes) \cap ChildIds(nodes) = {}
     /\ Range(finalRootNodes) \cup ChildIds(nodes) = Keys(allVisitsMap)
     /\ \A id \in Keys(allVisitsMap) :
          SomeId(finalRootNodes, id) <=> ~(\E p \in DOMAIN nodes : SomeId(nodes[p].children, id))

C2_Witness ==
  /\ pc = "built"
  /\ Len(finalRootNodes) >= 1
  /\ Cardinality(ChildIds(nodes)) >= 2

\* ======================================================================
\* C3: a visit whose referringVisitId is absent, is the "0" sentinel, or is
\* no key of the mapping is a final root, and the build step never fails.
\* ======================================================================
Unresolvable(map, id) ==
  \/ ReferrerOf(map, id) = Undefined
  \/ ReferrerOf(map, id) = NoReferrer
  \/ ReferrerOf(map, id) \notin Keys(map)

C3_UnresolvableIsRoot ==
  /\ pc = "fetched" => ENABLED Build
  /\ pc = "built" =>
       /\ DOMAIN nodes = Keys(allVisitsMap)
       /\ \A id \in Keys(allVisitsMap) :
            Unresolvable(allVisitsMap, id) => SomeId(finalRootNodes, id)

\* one visit of each kind, all three roots
C3_Witness ==
  /\ pc = "built"
  /\ \E a, b, c \in Keys(allVisitsMap) :
       /\ ReferrerOf(allVisitsMap, a) = Undefined
       /\ ReferrerOf(allVisitsMap, b) = NoReferrer
       /\ ReferrerOf(allVisitsMap, c) \notin ({Undefined, NoReferrer} \cup Keys(allVisitsMap))
       /\ {a, b, c} \subseteq Range(finalRootNodes)

\* ======================================================================
\* C4: strict tree: every node is in at most one children list, at most
\* once, and that list is the one of the node named by its referringVisitId.
\* ======================================================================
C4_StrictTree ==
  pc = "built" =>
    \A id \in Keys(allVisitsMap) :
      /\ Cardinality(ParentSlots(nodes, id)) <= 1
      /\ \A slot \in ParentSlots(nodes, id) : slot[1] = ReferrerOf(allVisitsMap, id)

C4_Witness ==
  /\ pc = "built"
  /\ \E p \in DOMAIN nodes : Len(nodes[p].children) = 2
  /\ \E id \in Keys(allVisitsMap) : ParentSlots(nodes, id) = {<<id, 1>>}

\* ---- sibling runs ----
UrlAt(arr, i, ns) == UrlOf(ns, arr[i])

TimeOf(ns, id) == ns[id].data.visitData.visitTime

\* <<a, b>>: positions a..b of arr are a maximal run of siblings with one URL
MaximalRuns(arr, ns) ==
  { run \in (1..Len(arr)) \X (1..Len(arr)) :
      /\ run[1] <= run[2]
      /\ \A i \in run[1]..run[2] : UrlAt(arr, i, ns) = UrlAt(arr, run[1], ns)
      /\ run[1] = 1 \/ UrlAt(arr, run[1] - 1, ns) # UrlAt(arr, run[1], ns)
      /\ run[2] = Len(arr) \/ UrlAt(arr, run[2] + 1, ns) # UrlAt(arr, run[2], ns) }

LastOfRuns(arr, ns) == { run[2] : run \in MaximalRuns(arr, ns) }

NthOf(S, j) == CHOOSE i \in S : Cardinality({ k \in S : k <= i }) = j

\* the elements of arr at the positions S, in their order in arr
Pick(arr, S) == [j \in 1..Cardinality(S) |-> arr[NthOf(S, j)]]

\* the nodes whose children list the collapser is called on: every root, and
\* every child left in a list of two or more siblings of such a node
RECURSIVE AppliedTo(_, _, _)
AppliedTo(S, pre, post) ==
  LET more == S \cup UNION { Range(post[p].children) :
                             p \in { q \in S : Len(pre[q].children) >= 2 } }
  IN IF more = S THEN S ELSE AppliedTo(more, pre, post)

CollapseRuns == pc = "built" /\ pc' = "collapsed"
                /\ shouldFilterDuplicates /\ Len(finalRootNodes) > 0

\* ======================================================================
\* C5: on one sibling sequence the collapser works on (the root list, or
\* the children list of a node it is called on), of every maximal run of
\* consecutive same-URL siblings exactly the last element survives, in
\* the old order; siblings differing from both neighbours are kept.
\* ======================================================================
C5_LastOfEachRunSurvives ==
  [][CollapseRuns =>
       /\ finalRootNodes' = Pick(finalRootNodes, LastOfRuns(finalRootNodes, nodes))
       /\ \A p \in AppliedTo(Range(finalRootNodes), nodes, nodes') :
            nodes'[p].children = Pick(nodes[p].children, LastOfRuns(nodes[p].children, nodes))
       /\ \A p \in DOMAIN nodes :
            \A i \in 1..Len(nodes[p].children) :
               (/\ i = 1 \/ UrlAt(nodes[p].children, i - 1, nodes) # UrlAt(nodes[p].children, i, nodes)
                /\ i = Len(nodes[p].children)
                     \/ UrlAt(nodes[p].children, i + 1, nodes) # UrlAt(nodes[p].children, i, nodes))
               => SomeId(nodes'[p].children, nodes[p].children[i])]_vars

ChildrenInMap(map, p) == { id \in Keys(map) : ReferrerOf(map, id) = p }

\* three same-URL children of a root collapsed to one
C5_Witness ==
  /\ pc = "collapsed" /\ shouldFilterDuplicates
  /\ \E p \in DOMAIN nodes :
       /\ Cardinality(ChildrenInMap(allVisitsMap, p)) = 3
       /\ Cardinality({ UrlOf(nodes, c) : c \in ChildrenInMap(allVisitsMap, p) }) = 1
       /\ SomeId(finalRootNodes, p)
       /\ Len(nodes[p].children) = 1

\* three children x, y, x of a root, all kept
C5_WitnessNonAdjacent ==
  /\ pc = "collapsed" /\ shouldFilterDuplicates
  /\ \E p \in DOMAIN nodes :
       /\ SomeId(finalRootNodes, p)
       /\ Len(nodes[p].children) = 3
       /\ UrlAt(nodes[p].children, 1, nodes) = UrlAt(nodes[p].children, 3, nodes)

\* ======================================================================
\* C6: the collapse pass (children of every root recursively, then the
\* root list) applied to an already collapsed forest changes nothing.
\* ======================================================================
C6_CollapseIdempotent ==
  (pc = "collapsed" /\ shouldFilterDuplicates) =>
     CollapsePass(TRUE, finalRootNodes, nodes) = [roots |-> finalRootNodes, nodes |-> nodes]

C6_Witness ==
  /\ pc = "collapsed" /\ shouldFilterDuplicates
  /\ Len(finalRootNodes) < Len(rootNodes)
  /\ \E p \in Range(finalRootNodes) :
       /\ Cardinality(ChildrenInMap(allVisitsMap, p)) >= 2
       /\ Len(nodes[p].children) < Cardinality(ChildrenInMap(allVisitsMap, p))

\* ---- runs that the collapser shortened ----
RunsKeepMostRecent(arr, ns) ==
  \A run \in MaximalRuns(arr, ns) :
    \A i \in run[1]..run[2] : TimeOf(ns, arr[run[2]]) >= TimeOf(ns, arr[i])

RunsTimeOrdered(arr, ns) ==
  \A run \in MaximalRuns(arr, ns) :
    \A i \in run[1]..(run[2] - 1) : TimeOf(ns, arr[i]) <= TimeOf(ns, arr[i + 1])

\* ======================================================================
\* C7 (original statement): of every run of consecutive same-URL siblings
\* (or roots) that is collapsed, the survivor's visitTime is >= the
\* visitTime of every node removed from the run.
\* ======================================================================
C7_SurvivorMostRecent ==
  [][CollapseRuns =>
       /\ finalRootNodes' # finalRootNodes => RunsKeepMostRecent(finalRootNodes, nodes)
       /\ \A p \in DOMAIN nodes :
            nodes'[p].children # nodes[p].children =>
               RunsKeepMostRecent(nodes[p].children, nodes)]_vars

\* C7 (amended): the survivor of a collapsed run is its last node in pipeline
\* order (the order of insertion into the mapping), whatever the visit
\* times; its visitTime is >= that of every removed node of the run when the
\* run is in non-decreasing visitTime order.
SurvivorsAreLastPositioned(before, after, ns) ==
  \A run \in MaximalRuns(before, ns) :
    /\ SomeId(after, before[run[2]])
    /\ \A i \in run[1]..(run[2] - 1) : ~SomeId(after, before[i])
    /\ RunsTimeOrdered(before, ns) =>
         \A i \in run[1]..run[2] : TimeOf(ns, before[run[2]]) >= TimeOf(ns, before[i])

C7_SurvivorLastPositioned ==
  [][CollapseRuns =>
       /\ SurvivorsAreLastPositioned(finalRootNodes, finalRootNodes', nodes)
       /\ \A p \in DOMAIN nodes :
            nodes'[p].children # nodes[p].children =>
               SurvivorsAreLastPositioned(nodes[p].children, nodes'[p].children, nodes)]_vars

\* a collapsed pair of children whose survivor is the older visit
C7_Witness ==
  /\ pc = "collapsed" /\ shouldFilterDuplicates
  /\ \E p \in Range(finalRootNodes) :
       /\ Cardinality(ChildrenInMap(allVisitsMap, p)) = 2
       /\ Len(nodes[p].children) = 1
       /\ \E c \in ChildrenInMap(allVisitsMap, p) :
            TimeOf(nodes, c) > TimeOf(nodes, nodes[p].children[1])

\* ======================================================================
\* C8: after a rebuild with collapseDuplicates enabled, in pipeline order
\* no two adjacent roots share a URL and no two adjacent children of any
\* surviving node, at any depth, share a URL.
\* ======================================================================
NoAdjacentSameUrl(arr, ns) ==
  \A i \in 1..(Len(arr) - 1) : UrlAt(arr, i, ns) # UrlAt(arr, i + 1, ns)

C8_NoAdjacentDuplicates ==
  (pc \in {"collapsed", "stored"} /\ shouldFilterDuplicates) =>
     /\ NoAdjacentSameUrl(finalRootNodes, nodes)
     /\ \A p \in Reachable(finalRootNodes, nodes) :
          NoAdjacentSameUrl(nodes[p].children, nodes)

\* ---- projections ----
\* every node object (clone) of a forest of trees
RECURSIVE AllClones(_)
AllClones(trees) ==
  UNION { {trees[i]} \cup AllClones(trees[i].children) : i \in DOMAIN trees }

ProjectedIds(trees) == { t.id : t \in AllClones(trees) }

IdsOf(trees) == [i \in 1..Len(trees) |-> trees[i].id]

ContainsIgnoringCase(s, q) ==
  \E off \in 0..(Len(s) - Len(q)) :
    \A j \in 1..Len(q) : LowerChar(s[off + j]) = LowerChar(q[j])

SelfMatches(ns, id, q) ==
  \/ ContainsIgnoringCase(ns[id].data.historyItem.title, q)
  \/ ContainsIgnoringCase(ns[id].data.historyItem.url, q)

Descendants(ns, id) == Reachable(ns[id].children, ns)

Ancestors(ns, id) == { a \in DOMAIN ns : id \in Descendants(ns, a) }

\* ======================================================================
\* C9: with a non-empty query q, a node of the canonical forest has a
\* clone in the projection iff all its ancestors are retained and (its
\* title or URL contains q case-insensitively or one of its descendants is
\* retained); every leaf of the projection self-matches and every retained
\* node self-matches or has a matching descendant.
\* ======================================================================
C9_RetainedIffMatchOrDescendant ==
  (pc = "projected" /\ Trim(searchInput) # <<>>) =>
    LET q == Trim(searchInput)
        kept == ProjectedIds(nodesToRender)
        forest == Reachable(currentFullTree, nodes)
    IN /\ kept \subseteq forest
       /\ \A id \in forest :
            id \in kept <=>
              /\ Ancestors(nodes, id) \subseteq kept
              /\ \/ SelfMatches(nodes, id, q)
                 \/ Descendants(nodes, id) \cap kept # {}
       /\ \A t \in AllClones(nodesToRender) :
            /\ t.children = <<>> => SelfMatches(nodes, t.id, q)
            /\ \/ SelfMatches(nodes, t.id, q)
               \/ \E d \in Descendants(nodes, t.id) : SelfMatches(nodes, d, q)
            /\ IdsOf(t.children) =
                 SelectSeq(nodes[t.id].children, LAMBDA c : c \in kept)

\* a root kept only for its matching child, beside a pruned non-matching leaf
C9_Witness ==
  /\ pc = "projected" /\ Trim(searchInput) # <<>>
  /\ Len(currentFullTree) = 1
  /\ Len(nodes[currentFullTree[1]].children) = 2
  /\ ~SelfMatches(nodes, currentFullTree[1], Trim(searchInput))
  /\ Len(nodesToRender) = 1
  /\ Len(nodesToRender[1].children) = 1

\* ======================================================================
\* C10: with an empty query, also one that is only whitespace before
\* trimming, the projection is structurally the canonical forest: the same
\* roots in the same order, each with the same children in the same order.
\* ======================================================================
C10_EmptyQueryIdentity ==
  (pc = "projected" /\ Trim(searchInput) = <<>>) =>
     /\ IdsOf(nodesToRender) = currentFullTree
     /\ ProjectedIds(nodesToRender) = Reachable(currentFullTree, nodes)
     /\ \A t \in AllClones(nodesToRender) :
          IdsOf(t.children) = nodes[t.id].children

C10_Witness ==
  /\ pc = "projected"
  /\ searchInput = <<" ">>
  /\ Len(currentFullTree) = 2
  /\ \E i \in 1..2 : Len(nodesToRender[i].children) = 1

\* ======================================================================
\* Search and display against the canonical forest
\* ======================================================================
\* the canonical arrays: the root array and the children array of every node
CanonicalArrays(roots, ns) ==
  [roots |-> roots, children |-> [id \in DOMAIN ns |-> ns[id].children]]

\* C11: once a rebuild has stored the canonical forest, no step of search and
\* display (query change, project, render) changes its root order or the
\* children list of any of its nodes
C11_CanonicalNeverMutated ==
  [][(pc \in {"stored", "projected", "rendered"})
       => CanonicalArrays(currentFullTree', nodes')
            = CanonicalArrays(currentFullTree, nodes)]_vars

\* positions of the ids of arr in the canonical root order
KeptInCanonicalOrder(arr) ==
  ArrayIds(arr) = SelectSeq(currentFullTree, LAMBDA id : id \in Range(ArrayIds(arr)))

\* C12 as stated: the projection handed to renderTree is never the canonical
\* root array, whatever the query, the empty one included
C12_ProjectionNeverAliases == pc = "projected" => ~aliased

\* C12 as amended: the projection for a non-empty (trimmed) query is a fresh
\* array of clones, and sorting it in place leaves the canonical arrays as they
\* were; the projection for the empty query is the canonical root array itself
C12_NonEmptyQueryNeverAliases ==
  [][pc = "projected"
       => /\ aliased <=> ~Truthy(SearchText(searchInput))
          /\ (Truthy(SearchText(searchInput)) /\ pc' = "rendered"
                => CanonicalArrays(currentFullTree', nodes')
                     = CanonicalArrays(currentFullTree, nodes))]_vars

\* a projection of two or more roots for a non-empty query was sorted in place
\* into an order that is not the canonical one
C12_Witness ==
  /\ pc = "rendered"
  /\ Truthy(SearchText(searchInput))
  /\ ~aliased
  /\ Len(nodesToRender) >= 2
  /\ ~KeptInCanonicalOrder(nodesToRender)

\* C13: renderTree leaves the root array it is given, and the children array
\* of every node in it, in the order they had
C13_RenderLeavesInputOrder ==
  [][pc = "projected" /\ pc' = "rendered" => nodesToRender' = nodesToRender]_vars

VisitTimeOf(li) == li.data.visitData.visitTime

NonIncreasing(list) ==
  \A i \in 1..(Len(list) - 1) : VisitTimeOf(list[i]) >= VisitTimeOf(list[i + 1])

NonDecreasing(list) ==
  \A i \in 1..(Len(list) - 1) : VisitTimeOf(list[i]) <= VisitTimeOf(list[i + 1])

InsertedAt(visitId) ==
  CHOOSE k \in DOMAIN allVisitsMap : allVisitsMap[k].visitData.visitId = visitId

\* C14: in the rendered tree the root items are in non-increasing visitTime
\* order and the child items of every item in non-decreasing visitTime order
C14_RenderedOrdering ==
  /\ NonIncreasing(historyTreeDiv.children)
  /\ \A li \in SubtreesOf(historyTreeDiv.children) : NonDecreasing(li.children)

\* an item is rendered with two children of different times, the older one
\* first although it was inserted into the mapping after the newer one
C14_Witness ==
  /\ pc = "rendered"
  /\ \E li \in SubtreesOf(historyTreeDiv.children) :
       /\ Len(li.children) >= 2
       /\ VisitTimeOf(li.children[1]) < VisitTimeOf(li.children[2])
       /\ InsertedAt(li.children[1].data.visitData.visitId)
            > InsertedAt(li.children[2].data.visitData.visitId)
\* ======================================================================
\* Selection Range Tracker.  The checkbox at document position p (1-based)
\* of the rendered tree is checkboxes[p]; the claims count positions from 0.
\* ======================================================================
AnchorSet == "lastCheckedIndex" \in implicitGlobals /\ lastCheckedIndex # -1

RenderedCount == Len(QuerySelectorAll(historyTreeDiv))

\* the branch of handleShiftClickLogic that sets a range
RangeClick(i) ==
  /\ CheckboxClick(i, TRUE)
  /\ AnchorSet
  /\ lastCheckedIndex < Len(visibleCheckboxes)

\* C15: on a shift-click of the item at position i - 1 with the anchor set and
\* smaller than the number of visible selectables, every item at the positions
\* min(anchor, i - 1)..max(anchor, i - 1) ends with the post-click checked
\* state of the clicked item, and every other item keeps its checked state
C15_ShiftClickRange ==
  [][\A i \in 1..PageVisits :
       RangeClick(i)
         => \A p \in DOMAIN checkboxes :
              checkboxes'[p].checked =
                IF /\ Min(lastCheckedIndex, i - 1) <= p - 1
                   /\ p - 1 <= Max(lastCheckedIndex, i - 1)
                  THEN ~checkboxes[i].checked
                  ELSE checkboxes[p].checked]_vars

\* a shift-click two positions after the anchor has just checked the three
\* items of its range, the last of which is the clicked one
C15_Witness ==
  /\ event.type = "click"
  /\ event.shiftKey
  /\ AnchorSet
  /\ lastCheckedIndex = 0
  /\ event.target = 3
  /\ Len(visibleCheckboxes) >= 3
  /\ \A p \in 1..3 : checkboxes[p].checked

\* C16: a plain click on the item at position i - 1 sets the anchor to i - 1
\* and changes the checked state of no other item
C16_PlainClickSetsAnchor ==
  [][\A i \in 1..PageVisits :
       CheckboxClick(i, FALSE)
         => /\ "lastCheckedIndex" \in implicitGlobals'
            /\ lastCheckedIndex' = i - 1
            /\ \A p \in DOMAIN checkboxes \ {i} :
                 checkboxes'[p].checked = checkboxes[p].checked]_vars

\* a plain click has just unchecked the second item and made it the anchor,
\* while the first item is still checked
C16_Witness ==
  /\ event = Event("click", 2, FALSE)
  /\ "lastCheckedIndex" \in implicitGlobals
  /\ lastCheckedIndex = 1
  /\ checkboxes[1].checked
  /\ ~checkboxes[2].checked

\* the anchor as a value: none while lastCheckedIndex does not exist
Anchor == IF "lastCheckedIndex" \in implicitGlobals THEN <<lastCheckedIndex>> ELSE <<>>

\* C17: only a click handled as a plain click (no shift key, or no anchor that
\* is set and inside the visible selectables) changes the anchor; a render, a
\* search re-projection, a rebuild, a deletion and a shift-click range
\* operation leave it as it was
C17_AnchorOnlyByPlainClick ==
  [][Anchor' # Anchor
       => /\ event'.type = "click"
          /\ ~(event'.shiftKey /\ AnchorSet /\ lastCheckedIndex < Len(visibleCheckboxes))]_vars

\* a render has just shown fewer selectable items than the anchor's position
C17_Witness ==
  /\ event.type \in {"timeout", "getVisits settled", "no items"}
  /\ AnchorSet
  /\ lastCheckedIndex >= 1
  /\ RenderedCount >= 1
  /\ lastCheckedIndex >= RenderedCount

\* C18: after every render pass, a render of an empty forest or projection
\* included, visibleCheckboxes is the sequence of the checkboxes of the output
\* just rendered, in document order
C18_CacheIsRenderedOutput ==
  [][event'.type \in {"timeout", "getVisits settled", "no items"}
       => visibleCheckboxes' = QuerySelectorAll(historyTreeDiv')]_vars

\* whenever the rendered output holds a checkbox (so that one can be clicked)
\* visibleCheckboxes is the sequence of the rendered checkboxes: the lookup of
\* handleCheckboxClick finds every checkbox a click can be dispatched on
ClickedIsAlwaysFound ==
  RenderedCount > 0
    => /\ "visibleCheckboxes" \in implicitGlobals
       /\ visibleCheckboxes = QuerySelectorAll(historyTreeDiv)

\* ======================================================================
\* Lifecycle of the canonical forest
\* ======================================================================
\* the place of a visit in the iteration order of the mapping
PositionIn(map, id) == CHOOSE k \in DOMAIN map : map[k].visitData.visitId = id

\* a and b are both roots or are children of the same visit
SameParent(map, a, b) ==
  LET resolves(id) == ReferrerResolves(ReferrerOf(map, id), CreateNodes(map))
  IN IF resolves(a)
       THEN resolves(b) /\ ReferrerOf(map, a) = ReferrerOf(map, b)
       ELSE ~resolves(b)

\* id, or a visit on its referrer chain, has a sibling of the same URL that was
\* inserted after it: the collapser may have removed it
RECURSIVE MayBeCollapsed(_, _, _)
MayBeCollapsed(map, id, steps) ==
  \/ \E s \in Keys(map) :
       /\ PositionIn(map, s) > PositionIn(map, id)
       /\ SameParent(map, id, s)
       /\ Truthy(ValueOf(map, id).historyItem.url)
       /\ ValueOf(map, id).historyItem.url = ValueOf(map, s).historyItem.url
  \/ /\ steps > 0
     /\ ReferrerResolves(ReferrerOf(map, id), CreateNodes(map))
     /\ MayBeCollapsed(map, ReferrerOf(map, id), steps - 1)

\* the forest (roots, ns) is the whole forest of map: every visit in it is
\* where its referrer puts it, and a visit is absent only when collapsing is
\* enabled and may have removed it
CompleteForest(map, enabled, roots, ns) ==
  /\ Reachable(roots, ns) \subseteq Keys(map)
  /\ \A id \in Reachable(roots, ns) :
       IF ReferrerResolves(ReferrerOf(map, id), ns)
         THEN /\ ~SomeId(roots, id)
              /\ SomeId(ns[ReferrerOf(map, id)].children, id)
         ELSE SomeId(roots, id)
  /\ \A id \in Keys(map) \ Reachable(roots, ns) :
       enabled /\ MayBeCollapsed(map, id, Len(map))

\* C20: every rebuild starts by emptying currentFullTree, a rebuild whose page
\* query fails leaves it empty, and it is made non-empty only by the end of a
\* rebuild, which stores the completely linked (and, if enabled, collapsed)
\* forest of that rebuild's mapping; it never holds a partially linked forest
C20_CanonicalLifecycle ==
  [][/\ event'.type \in {"rebuild", "rejected"} => currentFullTree' = <<>>
     /\ currentFullTree' # <<>>
          => CompleteForest(allVisitsMap', shouldFilterDuplicates',
                            currentFullTree', nodes')
     /\ (currentFullTree' # currentFullTree /\ currentFullTree' # <<>>)
          => event'.type = "getVisits settled"]_vars

\* a rebuild that overlapped another one has just stored a collapsed forest
C20_Witness ==
  /\ event.type = "getVisits settled"
  /\ currentFullTree # <<>>
  /\ shouldFilterDuplicates
  /\ Keys(allVisitsMap) \ Reachable(currentFullTree, nodes) # {}
  /\ pending # <<>>
\* ======================================================================
\* Rebuilds in flight
\* ======================================================================
\* the visits shown in the rendered output
DisplayedIds(div) == { li.data.visitData.visitId : li \in SubtreesOf(div.children) }

\* C21 as claimed: triggering a rebuild leaves the stored forest and the
\* rendered output of the previous rebuild in place
C21_PreviousForestStaysDisplayed ==
  [][(event'.type = "rebuild" /\ currentFullTree # <<>>)
       => /\ currentFullTree' = currentFullTree
          /\ historyTreeDiv'.children = historyTreeDiv.children]_vars

\* C21: triggering a rebuild empties currentFullTree and the rendered output at
\* once; whenever a tree is displayed (by a completed rebuild or by a search
\* render) it shows visits of the stored forest only, and that forest is the
\* completely built forest of one rebuild, never a partial result
C21_NoPartialResultVisible ==
  [][/\ event'.type = "rebuild"
          => currentFullTree' = <<>> /\ historyTreeDiv'.children = <<>>
     /\ historyTreeDiv'.children # <<>>
          => /\ currentFullTree' # <<>>
             /\ DisplayedIds(historyTreeDiv') \subseteq Reachable(currentFullTree', nodes')
             /\ CompleteForest(allVisitsMap', shouldFilterDuplicates',
                               currentFullTree', nodes')]_vars

\* a rebuild has just been triggered while the tree of the previous rebuild was
\* displayed: the output is empty although the previous render's checkboxes
\* are still cached
C21_Witness ==
  /\ event.type = "rebuild"
  /\ pending # <<>>
  /\ visibleCheckboxes # <<>>
  /\ historyTreeDiv = EmptyDiv
  /\ currentFullTree = <<>>

\* C22: whatever else is in flight, the rebuild that goes on after its per-URL
\* fetches stores the complete forest of its own mapping, built with its own
\* filter-duplicates setting, and a rebuild that finds no history items or
\* whose page query fails stores the empty forest: the last completion wins
C22_LastCompletedWins ==
  [][/\ event'.type = "getVisits settled"
          => LET own == pending[event'.target]
             IN /\ shouldFilterDuplicates' = own.shouldFilterDuplicates
                /\ CompleteForest(allVisitsMap', own.shouldFilterDuplicates,
                                  currentFullTree', nodes')
                /\ allVisitsMap' # <<>> => currentFullTree' # <<>>
     /\ event'.type \in {"rejected", "no items"} => currentFullTree' = <<>>]_vars

\* of two rebuilds in flight the one triggered later has just completed and
\* stored its forest; the one triggered first is still awaiting its fetches
C22_Witness ==
  /\ event = Event("getVisits settled", 2, FALSE)
  /\ Len(pending) = 1
  /\ pending[1].await = "getVisits"
  /\ currentFullTree # <<>>
\* ======================================================================
\* Bulk deletion
\* ======================================================================
\* the k-th suspended invocation has begun fetchAndBuildTree
RebuildStarted(k) ==
  /\ k \in DOMAIN pending
  /\ pending[k].await = "search"
  /\ loadingDiv = "block"
  /\ historyTreeDiv = EmptyDiv
  /\ currentFullTree = <<>>

\* C26: the handler of the delete button starts the rebuild in the step in
\* which the last of its delete requests settles, fulfilled or rejected, and
\* in no step before: while a request is outstanding it stays suspended and
\* the stored forest and the output are left alone
C26_RebuildAfterAllSettled ==
  [][\A k \in DOMAIN pending :
       pending[k].await = "deleteUrl"
         => /\ (event'.type \in {"deleteUrl fulfilled", "deleteUrl rejected"}
                  /\ event'.target = k)
                 => IF Len(pending[k].urls) = 1
                      THEN RebuildStarted(k)'
                      ELSE /\ pending'[k].await = "deleteUrl"
                           /\ Len(pending'[k].urls) = Len(pending[k].urls) - 1
                           /\ currentFullTree' = currentFullTree
                           /\ historyTreeDiv' = historyTreeDiv
            /\ (k \in DOMAIN pending' /\ pending'[k].await # "deleteUrl")
                 => /\ Len(pending[k].urls) = 1
                    /\ event'.type \in {"deleteUrl fulfilled", "deleteUrl rejected"}
                    /\ RebuildStarted(k)'
            /\ k \in DOMAIN pending']_vars

\* the last delete request has just failed and the rebuild is under way
C26_Witness ==
  /\ event.type = "deleteUrl rejected"
  /\ RebuildStarted(1)
  /\ visibleCheckboxes # <<>>

\* the URLs of the checked checkboxes of the rendered output
CheckedUrls ==
  { checkboxes[e].dataset.url :
      e \in { c \in Range(QuerySelectorAll(historyTreeDiv)) : checkboxes[c].checked } }

NoDuplicates(arr) == \A a, b \in DOMAIN arr : arr[a] = arr[b] => a = b

\* C27: a confirmed click on the delete button with checked items issues one
\* delete request for every URL of a checked item of the rendered output, no
\* two requests for one URL, and no request for any other URL
C27_OneRequestPerUrl ==
  [][(event'.type = "delete" /\ CheckedUrls # {} /\ DeleteSelected(1, TRUE))
       => /\ Len(pending') = Len(pending) + 1
          /\ LET issued == pending'[Len(pending')]
             IN /\ issued.await = "deleteUrl"
                /\ NoDuplicates(issued.urls)
                /\ Range(issued.urls) = CheckedUrls]_vars

\* two checked visits of one URL and an unchecked visit of another URL: one
\* request has just been issued
C27_Witness ==
  /\ event.type = "delete"
  /\ Len(pending) = 1
  /\ pending[1].await = "deleteUrl"
  /\ Len(pending[1].urls) = 1
  /\ \E a, b, c \in Range(QuerySelectorAll(historyTreeDiv)) :
       /\ a # b
       /\ checkboxes[a].checked /\ checkboxes[b].checked /\ ~checkboxes[c].checked
       /\ checkboxes[a].dataset.url = checkboxes[b].dataset.url
       /\ checkboxes[c].dataset.url # checkboxes[a].dataset.url

DeleteAwaited(p) == { k \in DOMAIN p : p[k].await = "deleteUrl" }

\* C28: delete requests are issued only by a click on the delete button that
\* found checked items and was confirmed; a click with nothing checked or
\* declined issues none, starts no rebuild and leaves the stored forest, the
\* output and the checked states as they were
C28_NoDeleteWithoutConfirmation ==
  [][/\ Cardinality(DeleteAwaited(pending')) > Cardinality(DeleteAwaited(pending))
          => event'.type = "delete" /\ CheckedUrls # {} /\ DeleteSelected(1, TRUE)
     /\ (/\ event'.type = "delete"
         /\ DeleteSelected(1, FALSE) \/ (DeleteSelected(1, TRUE) /\ CheckedUrls = {}))
          => /\ pending' = pending
             /\ currentFullTree' = currentFullTree
             /\ nodes' = nodes
             /\ historyTreeDiv' = historyTreeDiv
             /\ checkboxes' = checkboxes
             /\ loadingDiv' = loadingDiv]_vars

\* the user has just declined the confirmation with an item checked
C28_Witness ==
  /\ event.type = "delete"
  /\ pending = <<>>
  /\ CheckedUrls # {}
  /\ currentFullTree # <<>>
  /\ loadingDiv = "none"
\* ======================================================================
\* VisitRecord Normalizer
\* ======================================================================
\* <<i, k>>: the k-th VisitItem of the answer for the i-th history item
Delivered ==
  UNION { { <<i, k>> : k \in DOMAIN responses[i].visits } : i \in DOMAIN responses }

VisitOf(d) == responses[d[1]].visits[d[2]]

ItemOf(d) == responses[d[1]].item

\* the delivery belongs into the mapping
Qualifies(d) ==
  /\ ~responses[d[1]].rejected
  /\ ItemOf(d).url # HistoryPageUrl
  /\ StartTime <= VisitOf(d).visitTime
  /\ VisitOf(d).visitTime <= EndTime
  /\ VisitOf(d).transition # "reload"

Qualifying == { d \in Delivered : Qualifies(d) }

\* the mapping when the requests settle in the order of historyItems
RECURSIVE InOrder(_, _)
InOrder(i, map) ==
  IF i > Len(responses) THEN map
  ELSE InOrder(i + 1,
               IF i \in FilterSelf(responses)
                 THEN VisitsForEach(VisitsOf(responses[i]), 1, responses[i].item, map)
                 ELSE map)

\* the forest fetchAndBuildTree builds of a mapping
ForestOf(map, enabled) ==
  LET linked == LinkNodes(map, 1, [nodes |-> CreateNodes(map), rootNodes |-> <<>>])
  IN CollapsePass(enabled, RefineRoots(linked.rootNodes, linked.nodes), linked.nodes)

\* a forest without the order of its arrays
ForestSets(roots, ns) ==
  [roots |-> Range(roots),
   children |-> [id \in Reachable(roots, ns) |-> Range(ns[id].children)]]

SameAsInOrder ==
  LET r == ForestOf(InOrder(1, <<>>), shouldFilterDuplicates)
  IN ForestSets(finalRootNodes, nodes) = ForestSets(r.roots, r.nodes)

\* C23 as claimed: whatever was delivered, the forest of the rebuild, collapsed
\* or not, has the roots and the children it has when the requests settle in
\* the order of the history items
C23_OrderIrrelevant == pc = "collapsed" => SameAsInOrder

\* some visitId enters the mapping from the answers for two URLs
UnderTwoUrls ==
  \E d, e \in Qualifying : d[1] # e[1] /\ VisitOf(d).visitId = VisitOf(e).visitId

\* C23: when no visitId qualifies under two URLs, the forest of the rebuild,
\* collapsed or not, has the same roots and the same children of every node
\* in whatever order the per-URL requests settle
C23_OrderIrrelevantForOneUrlIds ==
  (pc = "collapsed" /\ ~UnderTwoUrls) => SameAsInOrder

\* the request for the second URL settled first; a visit of the first URL has
\* a child of the second URL, and collapsing removed them both
C23_Witness ==
  /\ pc = "collapsed"
  /\ ~UnderTwoUrls
  /\ shouldFilterDuplicates
  /\ Len(allVisitsMap) >= 3
  /\ allVisitsMap[1].historyItem = ItemTable[2]
  /\ \E k \in DOMAIN allVisitsMap :
       /\ allVisitsMap[k].historyItem = ItemTable[1]
       /\ allVisitsMap[1].visitData.referringVisitId = allVisitsMap[k].visitData.visitId
       /\ allVisitsMap[k].visitData.visitId \notin Reachable(finalRootNodes, nodes)

\* C24: a rejected getVisits request adds nothing to the mapping and a
\* fulfilled one adds exactly the qualifying visits of its answer, whatever
\* the other requests did; neither enters the error path: the rebuild goes on
\* to build its forest once the last request has settled
C24_FailureIsolated ==
  [][(pc = "fetching" /\ event'.type \in {"getVisits rejected", "getVisits fulfilled"})
       => LET i == event'.target
          IN /\ Keys(allVisitsMap')
                  = Keys(allVisitsMap)
                      \cup { VisitOf(d).visitId : d \in { e \in Qualifying : e[1] = i } }
             /\ responses[i].rejected => allVisitsMap' = allVisitsMap
             /\ pc' = IF unsettled' = {} THEN "fetched" ELSE "fetching"
             /\ historyTreeDiv' = historyTreeDiv
             /\ loadingDiv' = loadingDiv
             /\ currentFullTree' = currentFullTree]_vars

\* the request for one URL was rejected and the rebuild has stored the forest
\* of the visits of the other URL
C24_Witness ==
  /\ pc = "stored"
  /\ \E i \in DOMAIN responses : responses[i].rejected /\ responses[i].visits # <<>>
  /\ currentFullTree # <<>>

\* C29: every entry of the mapping is a delivered visit inside the window
\* [StartTime, EndTime] that is no reload, of a history item other than the
\* viewer's own page whose request was fulfilled; once all requests have
\* settled every such visit has an entry; the nodes are visits of the mapping
C29_Normalized ==
  /\ \A k \in DOMAIN allVisitsMap :
       /\ \E d \in Qualifying :
            /\ allVisitsMap[k].visitData = VisitOf(d)
            /\ allVisitsMap[k].historyItem = ItemOf(d)
       /\ allVisitsMap[k].visitData.visitTime \in StartTime..EndTime
       /\ allVisitsMap[k].visitData.transition # "reload"
       /\ allVisitsMap[k].historyItem.url # HistoryPageUrl
  /\ pc # "fetching" => Keys(allVisitsMap) = { VisitOf(d).visitId : d \in Qualifying }
  /\ DOMAIN nodes \subseteq Keys(allVisitsMap)

\* the own page was among the history items, a reload and a visit outside the
\* window were delivered, and the mapping holds a visit on each end of the window
C29_Witness ==
  /\ pc = "stored"
  /\ \E i \in DOMAIN responses : responses[i].item.url = HistoryPageUrl
  /\ \E d \in Delivered : ~responses[d[1]].rejected /\ VisitOf(d).transition = "reload"
  /\ \E d \in Delivered : ~responses[d[1]].rejected /\ VisitOf(d).visitTime < StartTime
  /\ \E k \in DOMAIN allVisitsMap : allVisitsMap[k].visitData.visitTime = StartTime
  /\ \E k \in DOMAIN allVisitsMap : allVisitsMap[k].visitData.visitTime = EndTime

\* the first qualifying delivery of visitId in the answer for history item i
FirstOf(i, visitId) ==
  CHOOSE k \in DOMAIN responses[i].visits :
    /\ Qualifies(<<i, k>>)
    /\ responses[i].visits[k].visitId = visitId
    /\ \A j \in 1..(k - 1) :
         ~(Qualifies(<<i, j>>) /\ responses[i].visits[j].visitId = visitId)

\* C30: when a request settles, every entry the mapping had stays as it was,
\* whatever is delivered again under its visitId; an entry that is new holds
\* the record of the first qualifying delivery of its visitId in the answer
\* and the history item of the request; no visitId gets two entries and the
\* rebuild goes on
C30_FirstSeenWins ==
  [][(pc = "fetching" /\ event'.type \in {"getVisits rejected", "getVisits fulfilled"})
       => LET i == event'.target
          IN /\ SubSeq(allVisitsMap', 1, Len(allVisitsMap)) = allVisitsMap
             /\ \A k \in (Len(allVisitsMap) + 1)..Len(allVisitsMap') :
                  LET id == allVisitsMap'[k].visitData.visitId
                  IN /\ allVisitsMap'[k].visitData = responses[i].visits[FirstOf(i, id)]
                     /\ allVisitsMap'[k].historyItem = responses[i].item
             /\ \A k, l \in DOMAIN allVisitsMap' :
                  allVisitsMap'[k].visitData.visitId = allVisitsMap'[l].visitData.visitId
                    => k = l
             /\ pc' \in {"fetching", "fetched"}]_vars

\* a visitId was delivered with different records under the two URLs and the
\* request for the second URL settled first: the mapping has its record
C30_Witness ==
  /\ pc = "fetched"
  /\ \E d, e \in Qualifying :
       /\ d[1] < e[1]
       /\ VisitOf(d).visitId = VisitOf(e).visitId
       /\ VisitOf(d) # VisitOf(e)
       /\ ValueOf(allVisitsMap, VisitOf(e).visitId).visitData = VisitOf(e)
       /\ ValueOf(allVisitsMap, VisitOf(e).visitId).historyItem = ItemOf(e)
\* ======================================================================
\* debounce
\* ======================================================================
\* func has run once for the burst, wait or more after its last call and
\* with the arguments of that call
InvokedOnce ==
  /\ burst.invocations = 1
  /\ now >= burst.time + Wait
  /\ burst.invoked = burst.args

ErrorText == "An error occurred"

InvalidText == "Invalid date range."

\* C31: the step in which the page query of a rebuild is rejected leaves
\* currentFullTree empty, the error message in place of every tree that was
\* displayed, and the loading indicator off; the invocation is over
C31_PageQueryFailure ==
  [][event'.type = "rejected"
       => /\ currentFullTree' = <<>>
          /\ nodes' = <<>>
          /\ historyTreeDiv' = [children |-> <<>>, textContent |-> ErrorText]
          /\ loadingDiv' = "none"
          /\ Len(pending') = Len(pending) - 1]_vars

\* the page query of the second rebuild has just failed; the first one had
\* rendered a tree in between
C31_Witness ==
  /\ event.type = "rejected"
  /\ pending = <<>>
  /\ visibleCheckboxes # <<>>
  /\ historyTreeDiv.textContent = ErrorText
  /\ currentFullTree = <<>>

\* C32: a rebuild triggered with an unparsable date awaits nothing (no page
\* query, no getVisits request), leaves currentFullTree empty, shows the
\* invalid-range message and turns the loading indicator off
C32_InvalidDates ==
  [][(event'.type = "rebuild" /\ FetchAndBuildTree(2, FALSE, FALSE))
       => /\ pending' = pending
          /\ unsettled' = unsettled
          /\ currentFullTree' = <<>>
          /\ nodes' = <<>>
          /\ historyTreeDiv' = [children |-> <<>>, textContent |-> InvalidText]
          /\ loadingDiv' = "none"]_vars

\* a rebuild with an unparsable date has just returned; a tree had been
\* rendered before and nothing is in flight
C32_Witness ==
  /\ event.type = "rebuild"
  /\ pending = <<>>
  /\ visibleCheckboxes # <<>>
  /\ historyTreeDiv.textContent = InvalidText
  /\ currentFullTree = <<>>
  /\ loadingDiv = "none"
\* the step ends an invocation of fetchAndBuildTree: on unparsable dates, on
\* the failure of the page query, on no history items, or after the render
Finishes ==
  \/ event'.type \in {"rejected", "no items", "getVisits settled"}
  \/ event'.type = "rebuild" /\ pending' = pending

\* C33: when the awaited requests settle, invocations finish again and
\* again or in the end nothing is in flight for good, so that a rebuild in
\* flight is always followed by the end of an invocation; every step that ends an invocation, on
\* whichever exit, leaves the loading indicator off and the page between two
\* turns of the event loop, where a rebuild can be triggered again
C33_EveryRebuildFinishes ==
  /\ [][/\ Finishes => loadingDiv' = "none" /\ pc' = "idle"
        /\ Len(pending') < Len(pending) => Finishes]_vars
  /\ [](ENABLED FetchAndBuildTree(Len(pending) + 1, TRUE, FALSE))
  /\ \/ []<><<Len(pending') < Len(pending)>>_vars
     \/ <>[](pending = <<>>)

\* the page query of one rebuild has just answered with no history items
\* while another rebuild is still in flight
C33_Witness ==
  /\ event.type = "no items"
  /\ Len(pending) = 1
  /\ loadingDiv = "none"
  /\ historyTreeDiv.textContent = "No history items found for the selected criteria."
\* C38 as claimed: the loading indicator is on whenever an invocation of
\* fetchAndBuildTree is in flight
C38_LoadingWhileInFlight == pending # <<>> => loadingDiv = "block"

\* ======================================================================
\* Display and state at quiescence
\* ======================================================================
\* no rebuild in flight and no debounce timer pending
Quiescent == pending = <<>> /\ timers = {}

\* the output is what renderFilteredTree makes of currentFullTree and the
\* search box as they are now
Consistent ==
  historyTreeDiv = RenderFilteredTree(RenderState, searchInput).historyTreeDiv

\* the output is the message of a rebuild that failed
ErrorShown == historyTreeDiv.textContent \in {ErrorText, InvalidText}

\* the step ends a rebuild without a forest: unparsable dates or a rejected page query
Fails ==
  \/ event'.type = "rejected"
  \/ event'.type = "rebuild" /\ pending' = pending

\* C39: at quiescence the output is the render of the projection of
\* currentFullTree under the search box, unless it is the message of a
\* failed rebuild; that message is put there only by the step in which a
\* rebuild fails, and it is gone after every rebuild that completes with a
\* forest and after every search render. So whenever the last rebuild
\* completed successfully the output at quiescence is that render
C39_ConsistentAtQuiescence ==
  /\ [](Quiescent => ErrorShown \/ Consistent)
  /\ [][/\ event'.type \in {"no items", "getVisits settled", "timeout"} => ~ErrorShown'
        /\ (ErrorShown' /\ ~Fails) => ErrorShown /\ historyTreeDiv' = historyTreeDiv]_vars

\* a rebuild has just completed with two roots while the search box holds
\* "y", and the output shows the one that matches
C39_Witness ==
  /\ Quiescent
  /\ event.type = "getVisits settled"
  /\ searchInput = <<"y">>
  /\ Len(currentFullTree) = 2
  /\ Len(historyTreeDiv.children) = 1
\* ======================================================================
\* Termination without a cycle guard
\* ======================================================================
\* C34: whatever the referrers of the mapping are, cycles and
\* self-references included, no node reachable from the final roots is its
\* own descendant, a walk from the roots that may descend one level more
\* than there are nodes meets every reachable node exactly once, and the
\* render, run to its end, shows exactly the reachable nodes
C34_ReachableForestAcyclic ==
  pc # "fetched" =>
    /\ \A id \in Reachable(finalRootNodes, nodes) :
         /\ id \notin Descendants(nodes, id)
         /\ Occurrences(finalRootNodes, id, nodes, Cardinality(DOMAIN nodes) + 1) = 1
    /\ pc = "rendered" => DisplayedIds(historyTreeDiv) = Reachable(finalRootNodes, nodes)

\* a visit that refers to itself beside a root with a child, collapsed,
\* projected and rendered
C34_Witness ==
  /\ pc = "rendered"
  /\ shouldFilterDuplicates
  /\ \E id \in Keys(allVisitsMap) : ReferrerOf(allVisitsMap, id) = id
  /\ \E id \in Range(finalRootNodes) : nodes[id].children # <<>>
\* ======================================================================
\* Siblings of one URL
\* ======================================================================
\* the entries of one URL are next to each other in insertion order, as they
\* are when the page query lists each URL once and no visitId is delivered
\* under two URLs: the callback of a URL inserts its visits in one turn
UrlsContiguous(map) ==
  \A i, j, k \in DOMAIN map :
    (i < k /\ k < j /\ map[i].historyItem.url = map[j].historyItem.url)
      => map[k].historyItem.url = map[i].historyItem.url

NoTwoShareUrl(arr, ns) ==
  \A a, b \in DOMAIN arr : a # b => UrlOf(ns, arr[a]) # UrlOf(ns, arr[b])

\* C36 as claimed: when the visits of each URL are next to each other in the
\* mapping, after the collapse no two roots and no two children of a node of
\* the forest share a URL
C36_NoSiblingsShareUrl ==
  (pc = "collapsed" /\ shouldFilterDuplicates /\ UrlsContiguous(allVisitsMap))
    => /\ NoTwoShareUrl(finalRootNodes, nodes)
       /\ \A id \in Reachable(finalRootNodes, nodes) :
            NoTwoShareUrl(nodes[id].children, nodes)
\* ======================================================================
\* Clicks and renders
\* ======================================================================
\* C35 as claimed: a shift-click on the item at position i - 1 while the
\* anchor is unset or not smaller than the number of visible selectables sets
\* the anchor to i - 1 and changes no other item, as a plain click does
C35_ShiftClickWithoutAnchor ==
  [][\A i \in 1..PageVisits :
       (CheckboxClick(i, TRUE) /\ ~(AnchorSet /\ lastCheckedIndex < Len(visibleCheckboxes)))
         => /\ "lastCheckedIndex" \in implicitGlobals'
            /\ lastCheckedIndex' = i - 1
            /\ \A p \in DOMAIN checkboxes \ {i} :
                 checkboxes'[p].checked = checkboxes[p].checked]_vars

\* a step that ends with a render: a rebuild that got its answers, or the
\* debounced render of a changed search box
Renders == event'.type \in {"getVisits settled", "no items", "timeout"}

\* C37: after every render every selectable item is unchecked and no URL is
\* collected for deletion, while the anchor is what it was before the render
C37_RenderUnchecksAll ==
  [][Renders
       => /\ \A p \in Range(QuerySelectorAll(historyTreeDiv')) : ~checkboxes'[p].checked
          /\ UrlsToDelete' = <<>>
          /\ Anchor' = Anchor]_vars

\* the search render has just shown one unchecked item; the anchor is still
\* at the second position, where a click on the earlier rendering had set it
C37_Witness ==
  /\ event.type = "timeout"
  /\ searchInput = <<"y">>
  /\ RenderedCount = 1
  /\ ~checkboxes[1].checked
  /\ UrlsToDelete = <<>>
  /\ Anchor = <<1>>
====
